---- MODULE Spec2Model ----
(***************************************************************************)
(* TribuAI: the conversation pipeline (backend/app/langgraph_config.py,    *)
(* backend/app/main.py) and the taste-graph client                         *)
(* (backend/app/qloo_client.py).                                           *)
(*                                                                         *)
(* Spec        one TribuAI instance driven turn after turn through         *)
(*             process_input; every node of the graph is one action.       *)
(* SpecRec     the recommendation and matching nodes on an arbitrary state.*)
(* SpecFilter  QlooClient._filter_and_deduplicate on bounded item lists.   *)
(* SpecBrand   QlooClient._get_brand_recommendations and                   *)
(*             _get_place_recommendations, one search per step.            *)
(* SpecMatch   QlooClient.get_matching_info on bounded entity lists.       *)
(***************************************************************************)
EXTENDS Integers, Sequences, FiniteSets, TLC

(***************************************************************************)
(* Bounds of the model.                                                    *)
(***************************************************************************)
MaxTurns == 2
MaxPerType == 1
MaxHist == 3
MaxItems == 2
MaxLimit == 2
MaxEntities == 4

Names == {"n1"}
Inputs == {"u1", "u2"}

(***************************************************************************)
(* Generic helpers.                                                        *)
(***************************************************************************)
Range(s) == {s[i] : i \in 1..Len(s)}

SeqsUpTo(S, n) == UNION {[1..k -> S] : k \in 0..n}

Min(a, b) == IF a < b THEN a ELSE b

\* xs[:n]
Take(xs, n) == SubSeq(xs, 1, Min(n, Len(xs)))

RECURSIVE Flatten(_)
Flatten(ss) == IF ss = <<>> THEN <<>> ELSE Head(ss) \o Flatten(Tail(ss))

\* The duplicate-free sequences over exactly the set S.
Perms(S) == {p \in [1..Cardinality(S) -> S] : Range(p) = S}

(***************************************************************************)
(* Python dicts keep insertion order: a dict is a sequence of key/value    *)
(* entries.                                                                *)
(***************************************************************************)
EmptyDict == <<>>

DictKeys(d) == {d[i].k : i \in 1..Len(d)}

\* d.get(k, [])  (also d.get(k) read for truthiness: absent and [] are both falsy)
Get(d, k) ==
    IF k \in DictKeys(d)
    THEN d[CHOOSE i \in 1..Len(d) : d[i].k = k].v
    ELSE <<>>

\* d[k] = v
Put(d, k, v) ==
    IF k \in DictKeys(d)
    THEN [i \in 1..Len(d) |-> IF d[i].k = k THEN [k |-> k, v |-> v] ELSE d[i]]
    ELSE Append(d, [k |-> k, v |-> v])

(***************************************************************************)
(* langgraph_config.py: categories, node names, routing.                   *)
(***************************************************************************)
\* required = ["music", "art", "fashion", "values", "places", "audiences"]
required == <<"music", "art", "fashion", "values", "places", "audiences">>

\* key order of the dict literal extracted_entities built by the parser
ParserKeys == <<"music", "art", "places", "fashion", "values", "audiences">>

LLM_PARSER == "llm_parser"
CONVERSATIONAL_LLM == "conversational_llm"
PROFILE_GENERATOR == "profile_generator"
DYNAMIC_RECOMMENDATIONS == "dynamic_recommendations"
OPTIONAL_MATCH == "optional_match"
END == "end"

\* The extractor's entity types: those the parser maps, and one it does not.
Types == <<"artist", "art", "place", "destination", "brand", "tag", "audience", "movie">>

\* names_of_type(t) inside llm_parser_node
names_of_type(entities, t) ==
    LET sel == SelectSeq(entities, LAMBDA e : e.type = t)
    IN  [i \in 1..Len(sel) |-> sel[i].name]

\* The name of an entity that has no "name" key
NoName == "<no name>"

\* The types names_of_type is called with
QueriedTypes == {"artist", "art", "place", "destination", "brand", "tag", "audience"}

\* e["name"] raises KeyError: evaluated for the entities of a queried type only
names_of_type_raises(entities) ==
    \E i \in 1..Len(entities) :
        entities[i].type \in QueriedTypes /\ entities[i].name = NoName

\* The mapping gone wrong: a movie counts as art
NewValues_movie_as_art(entities, category) ==
    CASE category = "music" -> names_of_type(entities, "artist")
      [] category = "art" ->
            names_of_type(entities, "art") \o names_of_type(entities, "movie")
      [] category = "places" ->
            names_of_type(entities, "place") \o names_of_type(entities, "destination")
      [] category = "fashion" -> names_of_type(entities, "brand")
      [] category = "values" -> names_of_type(entities, "tag")
      [] category = "audiences" -> names_of_type(entities, "audience")

\* extracted_entities = {"music": names_of_type("artist"), ...}
NewValues(entities, category) ==
    CASE category = "music" -> names_of_type(entities, "artist")
      [] category = "art" -> names_of_type(entities, "art")
      [] category = "places" ->
            names_of_type(entities, "place") \o names_of_type(entities, "destination")
      [] category = "fashion" -> names_of_type(entities, "brand")
      [] category = "values" -> names_of_type(entities, "tag")
      [] category = "audiences" -> names_of_type(entities, "audience")

\* list(set(xs)) that loses every element occurring more than once in xs
ListOfSet_dropping_repeats(xs) ==
    Perms({x \in Range(xs) : Cardinality({i \in 1..Len(xs) : xs[i] = x}) = 1})

\* list(set(xs)): the elements of xs once each, in an order Python does not fix
ListOfSet(xs) == Perms(Range(xs))

\* The accumulation loop of llm_parser_node from the i-th parser key on: the
\* set of dicts it can leave in existing_entities.
RECURSIVE Accumulate(_, _, _)
Accumulate(existing, entities, i) ==
    IF i > Len(ParserKeys) THEN {existing}
    ELSE LET category == ParserKeys[i]
             new_values == NewValues(entities, category)
         IN  IF new_values = <<>>
             THEN Accumulate(existing, entities, i + 1)
             ELSE UNION {Accumulate(Put(existing, category, combined), entities, i + 1) :
                           combined \in ListOfSet(Get(existing, category) \o new_values)}

\* values[:2] of every entry of the dict, in dict order (only lists that are
\* non-empty contribute anything)
FirstTwoOfEach(d) == Flatten([i \in 1..Len(d) |-> Take(d[i].v, 2)])

\* all(len(existing_entities.get(f, [])) > 0 for f in required)
AllRequiredFilled(d) == \A i \in 1..Len(required) : Len(Get(d, required[i])) > 0

\* get_missing_fields gone wrong: a key holding an empty list is not missing
get_missing_fields_absent_only(entities) ==
    SelectSeq(required, LAMBDA field : field \notin DictKeys(entities))

\* get_missing_fields
get_missing_fields(entities) ==
    SelectSeq(required, LAMBDA field : Get(entities, field) = <<>>)

\* route_after_parser gone wrong: the completeness test dropped
route_after_parser_unconditional(st) == PROFILE_GENERATOR

\* route_after_parser
route_after_parser(st) ==
    IF st.profile_complete THEN PROFILE_GENERATOR ELSE CONVERSATIONAL_LLM

\* The edges gone wrong: profile generation wired straight to matching
Edge_skipping_recommendations(node) ==
    CASE node = PROFILE_GENERATOR -> OPTIONAL_MATCH
      [] node = DYNAMIC_RECOMMENDATIONS -> OPTIONAL_MATCH
      [] node = OPTIONAL_MATCH -> END
      [] node = CONVERSATIONAL_LLM -> END

\* workflow.add_edge(a, b)
Edge(node) ==
    CASE node = PROFILE_GENERATOR -> DYNAMIC_RECOMMENDATIONS
      [] node = DYNAMIC_RECOMMENDATIONS -> OPTIONAL_MATCH
      [] node = OPTIONAL_MATCH -> END
      [] node = CONVERSATIONAL_LLM -> END


(***************************************************************************)
(* qloo_client.py: what the pipeline sees of the client.                   *)
(***************************************************************************)
\* What one search_entities call can do: return results, return none, raise.
SearchOutcomes == {"hit", "empty", "raise"}

\* The loop gone wrong: a search that raises ends it
SharedInterests_stopping_at_raise(entities, o) ==
    LET firstThree == Take(entities, 3)
        idx == SelectSeq([i \in 1..Len(firstThree) |-> i],
                         LAMBDA i : o[i] = "hit" /\ \A j \in 1..i : o[j] # "raise")
    IN  [j \in 1..Len(idx) |-> firstThree[idx[j]]]

\* The entities[:3] whose search returned at least one result, in order
SharedInterests(entities, o) ==
    LET firstThree == Take(entities, 3)
        idx == SelectSeq([i \in 1..Len(firstThree) |-> i], LAMBDA i : o[i] = "hit")
    IN  [j \in 1..Len(idx) |-> firstThree[idx[j]]]

\* The affinity step gone wrong: the thresholds compared with >
Affinity_strict(n) ==
    IF n > 3 THEN [affinity_percentage |-> 90, audience_cluster |-> "Cultural Enthusiast"]
    ELSE IF n > 2 THEN [affinity_percentage |-> 85, audience_cluster |-> "Cultural Explorer"]
    ELSE [affinity_percentage |-> 75, audience_cluster |-> "Cultural Curious"]

\* The affinity step of get_matching_info
Affinity(n) ==
    IF n >= 3 THEN [affinity_percentage |-> 90, audience_cluster |-> "Cultural Enthusiast"]
    ELSE IF n >= 2 THEN [affinity_percentage |-> 85, audience_cluster |-> "Cultural Explorer"]
    ELSE [affinity_percentage |-> 75, audience_cluster |-> "Cultural Curious"]

\* QlooClient.get_matching_info; o[i] is the outcome of the search for entities[i].
\* A search that raises is caught inside the loop, so the outer handler is not
\* reached.
get_matching_info(entities, o) ==
    IF entities = <<>>
    THEN [kind |-> "match", affinity_percentage |-> 0, shared_interests |-> <<>>,
          audience_cluster |-> "General"]
    ELSE LET shared_interests == SharedInterests(entities, o)
             a == Affinity(Len(shared_interests))
         IN  [kind |-> "match", affinity_percentage |-> a.affinity_percentage,
              shared_interests |-> shared_interests,
              audience_cluster |-> a.audience_cluster]

\* The item lists a recommendation method can hand back to the pipeline, which
\* never looks inside them: none, or some.
ItemLists == {<<>>, <<"e1">>}

EmptyRecommendations == [kind |-> "recs", brands |-> <<>>, places |-> <<>>]

RecPayloads == {[kind |-> "recs", brands |-> b, places |-> p] : b, p \in ItemLists}

\* get_basic_recommendations: searches, filters; any exception gives empty lists
get_basic_recommendations(context) == RecPayloads

\* get_contextual_recommendations: with nothing to search for it falls back to
\* the basic method
get_contextual_recommendations(entities, context) ==
    IF FirstTwoOfEach(entities) = <<>>
    THEN get_basic_recommendations(context)
    ELSE RecPayloads

\* get_comprehensive_recommendations: an empty narrative returns empty lists
get_comprehensive_recommendations(profile_narrative) ==
    IF profile_narrative = <<>> THEN {EmptyRecommendations} ELSE RecPayloads

\* build_combined_profile_narrative: one "Label: v1, v2" part per non-empty
\* category, joined by " | "; the narrative is the sequence of its parts.
NarrativeLabel(field) ==
    CASE field = "music" -> "Music"
      [] field = "art" -> "Art"
      [] field = "fashion" -> "Fashion"
      [] field = "values" -> "Values"
      [] field = "places" -> "Places"
      [] field = "audiences" -> "Audiences"

\* The narrative gone wrong: the parts follow the key order of the dict
build_combined_profile_narrative_dict_order(entities) ==
    LET filled == SelectSeq(entities, LAMBDA e : e.v # <<>>)
    IN  [i \in 1..Len(filled) |->
            [label |-> NarrativeLabel(filled[i].k), values |-> filled[i].v]]

build_combined_profile_narrative(entities) ==
    LET filled == SelectSeq(required, LAMBDA f : Get(entities, f) # <<>>)
    IN  [i \in 1..Len(filled) |->
            [label |-> NarrativeLabel(filled[i]), values |-> Get(entities, filled[i])]]

\* The strategy choice gone wrong: the history length is not looked at
SelectStrategy_ignoring_history(entities, history_len, profile_complete) ==
    IF entities = EmptyDict \/ \A i \in 1..Len(entities) : Len(entities[i].v) = 0
    THEN "get_basic_recommendations"
    ELSE IF ~profile_complete
    THEN "get_contextual_recommendations"
    ELSE "get_comprehensive_recommendations"

\* The strategy choice gone wrong: history length compared with < 2
SelectStrategy_short_history(entities, history_len, profile_complete) ==
    IF entities = EmptyDict \/ \A i \in 1..Len(entities) : Len(entities[i].v) = 0
    THEN "get_basic_recommendations"
    ELSE IF history_len < 2 \/ ~profile_complete
    THEN "get_contextual_recommendations"
    ELSE "get_comprehensive_recommendations"

\* The strategy choice of dynamic_recommendations_node
SelectStrategy(entities, history_len, profile_complete) ==
    IF entities = EmptyDict \/ \A i \in 1..Len(entities) : Len(entities[i].v) = 0
    THEN "get_basic_recommendations"
    ELSE IF history_len <= 2 \/ ~profile_complete
    THEN "get_contextual_recommendations"
    ELSE "get_comprehensive_recommendations"

(***************************************************************************)
(* qloo_client.py: raw results, _filter_and_deduplicate.                   *)
(***************************************************************************)
\* A raw search result. name "" and entity_id "None" stand for a missing key;
\* urn_entity says whether "urn:entity" is among its types.
Item(name, entity_id, image, description, properties_description, popularity) ==
    [name |-> name, entity_id |-> entity_id, image |-> image,
     description |-> description,
     properties_description |-> properties_description,
     popularity |-> popularity, urn_entity |-> TRUE]

\* name.lower()
Lower(name) ==
    CASE name = "Acme" -> "acme"
      [] name = "Brand X" -> "brand x"
      [] OTHER -> name

\* exclude in name, for the terms and names of the model
Substring(exclude, name) ==
    \/ exclude = name
    \/ exclude = "brand" /\ name = "brand x"

\* exclude_names when the caller passes none
DefaultExcludeNames == {"brand", "place"}

\* quality_score
quality_score(item) ==
    (IF item.image THEN 2 ELSE 0)
    + (IF item.description THEN 1 ELSE 0)
    + (IF item.properties_description THEN 1 ELSE 0)
    + item.popularity * 10

\* The sort gone wrong: items of equal score come out in reverse input order
SortRank_ties_reversed(items, i) ==
    1 + Cardinality({j \in 1..Len(items) :
                        \/ quality_score(items[j]) > quality_score(items[i])
                        \/ quality_score(items[j]) = quality_score(items[i]) /\ j > i})

\* sorted(items, key=quality_score, reverse=True): descending and stable, so
\* an item goes after every item of higher score and after the earlier items of
\* equal score.
SortRank(items, i) ==
    1 + Cardinality({j \in 1..Len(items) :
                        \/ quality_score(items[j]) > quality_score(items[i])
                        \/ quality_score(items[j]) = quality_score(items[i]) /\ j < i})

SortedByQuality(items) ==
    [r \in 1..Len(items) |-> items[CHOOSE i \in 1..Len(items) : SortRank(items, i) = r]]

\* The seen test gone wrong: an item without entity_id is never a duplicate
AlreadySeen_ids_only(entity_id, seen) == entity_id # "None" /\ entity_id \in seen

\* The seen test gone wrong: never skips
AlreadySeen_never(entity_id, seen) == FALSE

\* if entity_id in seen: continue
AlreadySeen(entity_id, seen) == entity_id \in seen

\* The name test gone wrong: no name is generic
IsGenericName_never(item, exclude_names) == FALSE

\* if any(exclude in name for exclude in exclude_names): continue
IsGenericName(item, exclude_names) ==
    \E exclude \in exclude_names : Substring(exclude, Lower(item.name))

\* item.get("name") and (description or image or properties.description)
HasUsefulInfo(item) ==
    /\ item.name # ""
    /\ (item.description \/ item.image \/ item.properties_description)

\* The loop over sorted_items from position i on
RECURSIVE FilterWalk(_, _, _, _, _, _)
FilterWalk(sorted_items, i, seen, filtered, exclude_names, limit) ==
    IF i > Len(sorted_items) THEN filtered
    ELSE IF Len(filtered) >= limit THEN filtered
    ELSE LET item == sorted_items[i]
         IN  IF AlreadySeen(item.entity_id, seen)
             THEN FilterWalk(sorted_items, i + 1, seen, filtered, exclude_names, limit)
             ELSE LET seen1 == seen \cup {item.entity_id}
                  IN  IF IsGenericName(item, exclude_names)
                      THEN FilterWalk(sorted_items, i + 1, seen1, filtered,
                                      exclude_names, limit)
                      ELSE IF HasUsefulInfo(item)
                      THEN FilterWalk(sorted_items, i + 1, seen1,
                                      Append(filtered, item), exclude_names, limit)
                      ELSE FilterWalk(sorted_items, i + 1, seen1, filtered,
                                      exclude_names, limit)

\* QlooClient._filter_and_deduplicate, for limit >= 0
_filter_and_deduplicate(items, exclude_names, limit) ==
    Take(FilterWalk(SortedByQuality(items), 1, {}, <<>>, exclude_names, limit), limit)

(***************************************************************************)
(* qloo_client.py: _get_brand_recommendations, _get_place_recommendations. *)
(***************************************************************************)
\* search_terms of the two methods: the entity followed by a suffix
SearchTerms(kind, entity) ==
    IF kind = "brand"
    THEN <<[entity |-> entity, suffix |-> ""],
           [entity |-> entity, suffix |-> " brand"],
           [entity |-> entity, suffix |-> " fashion"],
           [entity |-> entity, suffix |-> " lifestyle"]>>
    ELSE <<[entity |-> entity, suffix |-> " destination"],
           [entity |-> entity, suffix |-> " city"],
           [entity |-> entity, suffix |-> " place"],
           [entity |-> entity, suffix |-> ""]>>

\* result.get("name") and result.get("entity_id") and "urn:entity" in types
IsValidResult(result) ==
    result.name # "" /\ result.entity_id # "None" /\ result.urn_entity

\* The results of one search that the loop appends
ValidResults(search_results) == SelectSeq(search_results, IsValidResult)

\* if brands: break -- tested after each search of the inner loop
FoundSome(collected) == collected # <<>>

\* limit=5 of the final _filter_and_deduplicate call
RecommendationLimit == 5

(***************************************************************************)
(* State.                                                                  *)
(***************************************************************************)
VARIABLES
    state,      \* the TribuAIState dict threaded through the graph
    pc,         \* "idle" between turns, else the node about to run
    trace,      \* the nodes run so far in this turn
    calls,      \* the client methods invoked so far in this turn
    turn,       \* process_input calls made so far
    outcome,    \* how the last process_input ended: "none", "returned", "raised"
    prev_held,  \* the (category, name) pairs held when the previous turn ended
    filt,       \* one _filter_and_deduplicate call: arguments, position, result
    recs,       \* one _get_brand/_get_place_recommendations call, search by search
    mat,        \* one get_matching_info call: argument, search outcomes, result
    lim,        \* one QlooClient's rate limiter: clock, last_request_time, callers
    mrg,        \* llm_parser_node run on its own: the batch, how each run ended
    net,        \* QlooClient objects of one thread: construction, searches, GETs
    helper      \* one call of a helper function: arguments, position, result

evars == <<state, pc, trace, calls, turn, outcome, prev_held>>

cvars == <<filt, recs, mat, lim, mrg, net, helper>>

vars == <<evars, cvars>>

\* No client call under way
FilterIdle == filt = [pc |-> "idle"]
RecsIdle == recs = [pc |-> "idle"]
MatchIdle == mat = [pc |-> "idle"]
LimiterIdle == lim = [pc |-> "idle"]
MergeIdle == mrg = [pc |-> "idle"]
NetIdle == net = [pc |-> "idle"]
HelperIdle == helper = [pc |-> "idle"]
ClientIdle ==
    /\ FilterIdle /\ RecsIdle /\ MatchIdle /\ LimiterIdle /\ MergeIdle /\ NetIdle
    /\ HelperIdle

NoneValue == [kind |-> "None"]
EmptyDictValue == [kind |-> "{}"]
CompletionMessage == [kind |-> "completion", about |-> ""]
NoMessage == [kind |-> "None", about |-> ""]

\* The (category, name) pairs a profile holds
Held(d) == {<<d[i].k, n>> : i \in 1..Len(d), n \in Names} \cap
           UNION {{<<d[i].k, d[i].v[j]>> : j \in 1..Len(d[i].v)} : i \in 1..Len(d)}

\* graph_input of process_input
GraphInput(user_input) ==
    [user_input |-> user_input,
     extracted_entities |-> EmptyDict,
     cultural_profile |-> EmptyDictValue,
     recommendations |-> EmptyDictValue,
     matching |-> EmptyDictValue,
     conversation_history |-> <<>>,
     current_context |-> <<>>,
     recommendation_context |-> <<>>,
     current_node |-> "",
     error_message |-> "None",
     profile_complete |-> FALSE,
     assistant_message |-> NoMessage]

EngineInit ==
    /\ state = GraphInput("u1")
    /\ pc = "idle"
    /\ trace = <<>>
    /\ calls = <<>>
    /\ turn = 0
    /\ outcome = "none"
    /\ prev_held = {}

\* Where the graph goes after a node returned: END hands the state back to
\* process_input, which returns it.
Goto(node) == IF node = END THEN "idle" ELSE node

Returned(node) == IF node = END THEN "returned" ELSE outcome

(***************************************************************************)
(* TribuAI.process_input up to graph.invoke: a fresh graph_input per call. *)
(***************************************************************************)
process_input ==
    /\ pc = "idle"
    /\ turn < MaxTurns
    /\ \E user_input \in Inputs : state' = GraphInput(user_input)
    /\ pc' = LLM_PARSER
    /\ trace' = <<>>
    /\ calls' = <<>>
    /\ turn' = turn + 1
    /\ outcome' = "none"
    /\ prev_held' = Held(state.extracted_entities)
    /\ UNCHANGED cvars

(***************************************************************************)
(* llm_parser_node                                                         *)
(***************************************************************************)
\* The entity lists the extractor can return: per type, up to MaxPerType names.
Batches ==
    {Flatten([i \in 1..Len(Types) |->
                [j \in 1..Len(per[i]) |-> [name |-> per[i][j], type |-> Types[i]]]]) :
        per \in [1..Len(Types) -> SeqsUpTo(Names, MaxPerType)]}

\* The state after the history append, before the extractor is called
ParserStarted(st) ==
    [st EXCEPT !.current_node = LLM_PARSER,
               !.conversation_history = Append(@, [user_input |-> st.user_input])]

\* The state the parser returns when extraction succeeded and left `existing`
ParserDone(st, existing) ==
    LET all_entities == FirstTwoOfEach(existing)
    IN  [st EXCEPT !.extracted_entities = existing,
                   !.current_context =
                        IF all_entities # <<>> THEN Take(all_entities, 3) ELSE @,
                   !.profile_complete = AllRequiredFilled(existing)]

\* The except branch of the parser
ParserFailed(st) == [st EXCEPT !.error_message = "Error in llm_parser_node"]

\* The types the extractor of this run emits: every type of Types, unless the
\* run fixes a vocabulary
ExtractorTypes == IF helper.pc = "extractor" THEN helper.types ELSE Range(Types)

BatchesOver(types) ==
    {entities \in Batches : \A i \in 1..Len(entities) : entities[i].type \in types}

llm_parser_ok ==
    /\ pc = LLM_PARSER
    /\ \E entities \in BatchesOver(ExtractorTypes) :
         \E existing \in Accumulate(state.extracted_entities, entities, 1) :
            state' = ParserDone(ParserStarted(state), existing)
    /\ pc' = route_after_parser(state')
    /\ trace' = Append(trace, LLM_PARSER)
    /\ UNCHANGED <<calls, turn, outcome, prev_held>>
    /\ UNCHANGED cvars

llm_parser_fail ==
    /\ pc = LLM_PARSER
    /\ state' = ParserFailed(ParserStarted(state))
    /\ pc' = route_after_parser(state')
    /\ trace' = Append(trace, LLM_PARSER)
    /\ UNCHANGED <<calls, turn, outcome, prev_held>>
    /\ UNCHANGED cvars

llm_parser_node == llm_parser_ok \/ llm_parser_fail

(***************************************************************************)
(* conversational_llm_node: the model's reply is the message; nothing      *)
(* catches a failure of the call.                                          *)
(***************************************************************************)
conversational_llm_ok ==
    /\ pc = CONVERSATIONAL_LLM
    /\ \E about \in Range(required) :
         state' = [state EXCEPT !.assistant_message = [kind |-> "reply", about |-> about],
                                !.current_node = CONVERSATIONAL_LLM]
    /\ pc' = Goto(Edge(CONVERSATIONAL_LLM))
    /\ outcome' = Returned(Edge(CONVERSATIONAL_LLM))
    /\ trace' = Append(trace, CONVERSATIONAL_LLM)
    /\ UNCHANGED <<calls, turn, prev_held>>
    /\ UNCHANGED cvars

conversational_llm_raise ==
    /\ pc = CONVERSATIONAL_LLM
    /\ pc' = "idle"
    /\ outcome' = "raised"
    /\ trace' = Append(trace, CONVERSATIONAL_LLM)
    /\ UNCHANGED <<state, calls, turn, prev_held>>
    /\ UNCHANGED cvars

conversational_llm_node == conversational_llm_ok \/ conversational_llm_raise

(***************************************************************************)
(* profile_generator_node                                                  *)
(***************************************************************************)
ProfileDescription(entities, context) ==
    LET filled == SelectSeq(entities, LAMBDA e : e.v # <<>>)
    IN  [context |-> context,
         interests |-> [i \in 1..Len(filled) |->
                           [k |-> filled[i].k, v |-> Take(filled[i].v, 2)]]]

ProfileGenerated(st) ==
    [st EXCEPT !.current_node = PROFILE_GENERATOR,
               !.cultural_profile =
                    [kind |-> "profile", identity |-> "Cultural Explorer",
                     description |-> ProfileDescription(st.extracted_entities,
                                                        st.current_context),
                     entities |-> st.extracted_entities],
               !.recommendation_context =
                    IF st.current_context # <<>> THEN st.current_context
                    ELSE <<"general">>]

ProfileFailed(st) ==
    [st EXCEPT !.current_node = PROFILE_GENERATOR,
               !.error_message = "Error in profile_generator"]

profile_generator_node ==
    /\ pc = PROFILE_GENERATOR
    /\ \/ state' = ProfileGenerated(state)
       \/ state' = ProfileFailed(state)
    /\ pc' = Goto(Edge(PROFILE_GENERATOR))
    /\ outcome' = Returned(Edge(PROFILE_GENERATOR))
    /\ trace' = Append(trace, PROFILE_GENERATOR)
    /\ UNCHANGED <<calls, turn, prev_held>>
    /\ UNCHANGED cvars

(***************************************************************************)
(* dynamic_recommendations_node                                            *)
(***************************************************************************)
\* The call the chosen strategy makes: method and argument
StrategyCall(st) ==
    LET m == SelectStrategy(st.extracted_entities, Len(st.conversation_history),
                            st.profile_complete)
    IN  [method |-> m,
         arg |-> CASE m = "get_basic_recommendations" ->
                        [context |-> st.current_context]
                   [] m = "get_contextual_recommendations" ->
                        [entities |-> st.extracted_entities,
                         context |-> st.current_context]
                   [] m = "get_comprehensive_recommendations" ->
                        [profile_narrative |->
                            build_combined_profile_narrative(st.extracted_entities)]]

\* What the called method can return
StrategyResults(c) ==
    CASE c.method = "get_basic_recommendations" ->
            get_basic_recommendations(c.arg.context)
      [] c.method = "get_contextual_recommendations" ->
            get_contextual_recommendations(c.arg.entities, c.arg.context)
      [] c.method = "get_comprehensive_recommendations" ->
            get_comprehensive_recommendations(c.arg.profile_narrative)

Recommended(st, recommendations) ==
    [st EXCEPT !.current_node = DYNAMIC_RECOMMENDATIONS,
               !.recommendations = recommendations,
               !.assistant_message = IF st.profile_complete THEN CompletionMessage ELSE @]

\* An except branch that records the error and leaves recommendations alone
RecommendationsFailed_keeping_payload(st) ==
    [st EXCEPT !.current_node = DYNAMIC_RECOMMENDATIONS,
               !.error_message = "Error in dynamic_recommendations"]

\* The except branch, reached when QlooClient() raises
RecommendationsFailed(st) ==
    [st EXCEPT !.current_node = DYNAMIC_RECOMMENDATIONS,
               !.error_message = "Error in dynamic_recommendations",
               !.recommendations = EmptyRecommendations]

dynamic_recommendations_ok ==
    /\ pc = DYNAMIC_RECOMMENDATIONS
    /\ \E recommendations \in StrategyResults(StrategyCall(state)) :
         state' = Recommended(state, recommendations)
    /\ calls' = Append(calls, StrategyCall(state))
    /\ pc' = Goto(Edge(DYNAMIC_RECOMMENDATIONS))
    /\ outcome' = Returned(Edge(DYNAMIC_RECOMMENDATIONS))
    /\ trace' = Append(trace, DYNAMIC_RECOMMENDATIONS)
    /\ UNCHANGED <<turn, prev_held>>
    /\ UNCHANGED cvars

dynamic_recommendations_fail ==
    /\ pc = DYNAMIC_RECOMMENDATIONS
    /\ state' = RecommendationsFailed(state)
    /\ pc' = Goto(Edge(DYNAMIC_RECOMMENDATIONS))
    /\ outcome' = Returned(Edge(DYNAMIC_RECOMMENDATIONS))
    /\ trace' = Append(trace, DYNAMIC_RECOMMENDATIONS)
    /\ UNCHANGED <<calls, turn, prev_held>>
    /\ UNCHANGED cvars

dynamic_recommendations_node == dynamic_recommendations_ok \/ dynamic_recommendations_fail

(***************************************************************************)
(* optional_match_node                                                     *)
(***************************************************************************)
Matched(st, matching) ==
    [st EXCEPT !.current_node = OPTIONAL_MATCH, !.matching = matching]

\* An except branch that also resets the profile
MatchFailed_dropping_profile(st) ==
    [st EXCEPT !.current_node = OPTIONAL_MATCH,
               !.error_message = "Error in optional_match",
               !.extracted_entities = EmptyDict]

\* The except branch, reached when QlooClient() raises
MatchFailed(st) ==
    [st EXCEPT !.current_node = OPTIONAL_MATCH,
               !.error_message = "Error in optional_match"]

optional_match_skip ==
    /\ pc = OPTIONAL_MATCH
    /\ ~state.profile_complete
    /\ state' = Matched(state, NoneValue)
    /\ pc' = Goto(Edge(OPTIONAL_MATCH))
    /\ outcome' = Returned(Edge(OPTIONAL_MATCH))
    /\ trace' = Append(trace, OPTIONAL_MATCH)
    /\ UNCHANGED <<calls, turn, prev_held>>
    /\ UNCHANGED cvars

optional_match_ok ==
    /\ pc = OPTIONAL_MATCH
    /\ state.profile_complete
    /\ LET all_entities == FirstTwoOfEach(state.extracted_entities)
       IN  /\ \E o \in [1..3 -> SearchOutcomes] :
                state' = Matched(state, get_matching_info(all_entities, o))
           /\ calls' = Append(calls, [method |-> "get_matching_info",
                                      arg |-> [entities |-> all_entities]])
    /\ pc' = Goto(Edge(OPTIONAL_MATCH))
    /\ outcome' = Returned(Edge(OPTIONAL_MATCH))
    /\ trace' = Append(trace, OPTIONAL_MATCH)
    /\ UNCHANGED <<turn, prev_held>>
    /\ UNCHANGED cvars

optional_match_fail ==
    /\ pc = OPTIONAL_MATCH
    /\ state.profile_complete
    /\ state' = MatchFailed(state)
    /\ pc' = Goto(Edge(OPTIONAL_MATCH))
    /\ outcome' = Returned(Edge(OPTIONAL_MATCH))
    /\ trace' = Append(trace, OPTIONAL_MATCH)
    /\ UNCHANGED <<calls, turn, prev_held>>
    /\ UNCHANGED cvars

optional_match_node == optional_match_skip \/ optional_match_ok \/ optional_match_fail

(***************************************************************************)
(* Spec: one TribuAI instance, turn after turn.                            *)
(***************************************************************************)
\* The graph runs optional_match_node only after route_after_parser saw a
\* complete profile, so its skip branch is not among the steps of a turn.
Init == EngineInit /\ ClientIdle

Next ==
    \/ process_input
    \/ llm_parser_node
    \/ conversational_llm_node
    \/ profile_generator_node
    \/ dynamic_recommendations_node
    \/ optional_match_ok
    \/ optional_match_fail

Spec == Init /\ [][Next]_vars


(***************************************************************************)
(* SpecRec: dynamic_recommendations_node, and optional_match_node after it, *)
(* applied to any state a caller can hand them.                            *)
(***************************************************************************)
\* Per category: key absent, key present with an empty list, or one name.
RecProfiles ==
    {Flatten([i \in 1..Len(required) |->
                CASE shape[i] = "absent" -> <<>>
                  [] shape[i] = "empty" -> <<[k |-> required[i], v |-> <<>>]>>
                  [] shape[i] = "one" -> <<[k |-> required[i], v |-> <<"n1">>]>>]) :
        shape \in [1..Len(required) -> {"absent", "empty", "one"}]}

RecInit ==
    /\ \E d \in RecProfiles, h \in 0..MaxHist, c \in BOOLEAN :
         state = [GraphInput("u1") EXCEPT
                    !.extracted_entities = d,
                    !.conversation_history = [i \in 1..h |-> [user_input |-> "u1"]],
                    !.current_context = Take(FirstTwoOfEach(d), 3),
                    !.profile_complete = c]
    /\ pc = DYNAMIC_RECOMMENDATIONS
    /\ trace = <<>>
    /\ calls = <<>>
    /\ turn = 1
    /\ outcome = "none"
    /\ prev_held = {}
    /\ ClientIdle

RecNext == dynamic_recommendations_node \/ optional_match_node

SpecRec == RecInit /\ [][RecNext]_vars

(***************************************************************************)
(* Claims.                                                                 *)
(***************************************************************************)
TurnEnded == pc = "idle" /\ turn > 0

\* C1: across the turns of a session the accumulated profile never shrinks:
\* every (category, name) pair held when the previous turn ended is still held
\* when the next turn ends.
C1_ProfileNeverShrinks ==
    (TurnEnded /\ turn >= 2) => prev_held \subseteq Held(state.extracted_entities)

\* C2: whatever step of the pipeline fails, process_input returns a turn result
\* and raises nothing to its caller.
C2_NoExceptionEscapes == TurnEnded => outcome = "returned"

\* C3: in a turn whose profile is incomplete after parsing, the follow-up
\* question set as assistant_message is about the first category, in the order
\* of `required`, that is still empty.
C3_AsksFirstMissing ==
    (TurnEnded /\ outcome = "returned" /\ ~state.profile_complete)
        => /\ state.assistant_message.kind = "reply"
           /\ state.assistant_message.about =
                 Head(get_missing_fields(state.extracted_entities))

\* C4: in a turn whose profile is incomplete after parsing, neither profile
\* generation nor recommendation nor matching runs, no client method (so no
\* search) is invoked, and recommendations and matching keep the values the turn
\* started with.
C4_IncompleteSkipsRecommendation ==
    (trace # <<>> /\ ~state.profile_complete)
        => /\ Range(trace) \cap {PROFILE_GENERATOR, DYNAMIC_RECOMMENDATIONS,
                                 OPTIONAL_MATCH} = {}
           /\ calls = <<>>
           /\ state.recommendations = GraphInput(state.user_input).recommendations
           /\ state.matching = GraphInput(state.user_input).matching

C4_Witness ==
    /\ TurnEnded
    /\ outcome = "returned"
    /\ ~state.profile_complete
    /\ Held(state.extracted_entities) # {}
    /\ trace = <<LLM_PARSER, CONVERSATIONAL_LLM>>

\* The node sequence of a turn, by the completeness the parser left
TurnPath(complete) ==
    IF complete
    THEN <<LLM_PARSER, PROFILE_GENERATOR, DYNAMIC_RECOMMENDATIONS, OPTIONAL_MATCH>>
    ELSE <<LLM_PARSER, CONVERSATIONAL_LLM>>

\* C5: every turn starts at the parser; with a complete profile it then runs
\* profile generation, recommendation and matching once each in that order, with
\* an incomplete one exactly one follow-up node; no node runs twice, a turn runs
\* at most 4 nodes, and a turn under way always has its next node to run.
C5_TurnShape ==
    /\ Len(trace) <= 4
    /\ \A i, j \in 1..Len(trace) : i # j => trace[i] # trace[j]
    /\ (pc = LLM_PARSER) <=> (turn > 0 /\ trace = <<>>)
    /\ trace # <<>> =>
          LET path == TurnPath(state.profile_complete)
          IN  /\ Len(trace) <= Len(path)
              /\ trace = SubSeq(path, 1, Len(trace))
              /\ IF pc = "idle" THEN trace = path ELSE pc = path[Len(trace) + 1]
    /\ pc # "idle" => ENABLED Next

C5_Witness ==
    /\ TurnEnded
    /\ state.profile_complete
    /\ trace = <<LLM_PARSER, PROFILE_GENERATOR, DYNAMIC_RECOMMENDATIONS, OPTIONAL_MATCH>>

\* A profile holds no entity at all
NoEntity(d) == \A i \in 1..Len(required) : Get(d, required[i]) = <<>>

\* nar is the narrative of d: one part per non-empty category, with its label
\* and all its names
IsNarrativeOf(nar, d) ==
    /\ Len(nar) = Cardinality({i \in 1..Len(required) : Get(d, required[i]) # <<>>})
    /\ \A i \in 1..Len(required) :
          Get(d, required[i]) # <<>> =>
             \E j \in 1..Len(nar) : /\ nar[j].label = NarrativeLabel(required[i])
                                    /\ nar[j].values = Get(d, required[i])

\* C6: the recommendation node calls get_basic_recommendations iff no category
\* holds an entity; otherwise get_contextual_recommendations iff the history has
\* at most 2 entries or the profile is incomplete; otherwise
\* get_comprehensive_recommendations, once, with the narrative of the profile;
\* it makes one client call in all.
C6_StrategyPrecedence ==
    (pc = OPTIONAL_MATCH /\ state.error_message = "None")
        => /\ Len(calls) = 1
           /\ LET d == state.extracted_entities
                  h == Len(state.conversation_history)
                  m == calls[1].method
              IN  /\ m \in {"get_basic_recommendations",
                            "get_contextual_recommendations",
                            "get_comprehensive_recommendations"}
                  /\ (m = "get_basic_recommendations") <=> NoEntity(d)
                  /\ (m = "get_contextual_recommendations")
                        <=> (~NoEntity(d) /\ (h <= 2 \/ ~state.profile_complete))
                  /\ (m = "get_comprehensive_recommendations")
                        <=> (~NoEntity(d) /\ h > 2 /\ state.profile_complete)
                  /\ (m = "get_comprehensive_recommendations")
                        => IsNarrativeOf(calls[1].arg.profile_narrative, d)

C6_Witness ==
    /\ pc = OPTIONAL_MATCH
    /\ state.profile_complete
    /\ Len(state.conversation_history) = 3
    /\ Len(calls) = 1
    /\ calls[1].method = "get_comprehensive_recommendations"
    /\ Len(calls[1].arg.profile_narrative) = 6


(***************************************************************************)
(* SpecFilter: one call of _filter_and_deduplicate.                        *)
(***************************************************************************)
\* What an item can carry besides name and id:
\* <<image, description, properties.description, popularity>>
ContentShapes ==
    {<<FALSE, FALSE, FALSE, 0>>, <<FALSE, TRUE, FALSE, 0>>,
     <<TRUE, FALSE, FALSE, 0>>, <<FALSE, FALSE, TRUE, 1>>}

FilterItems ==
    {Item(name, entity_id, c[1], c[2], c[3], c[4]) :
        name \in {"", "Acme", "Brand X"},
        entity_id \in {"None", "e1", "e2"},
        c \in ContentShapes}

ExcludeSets == {DefaultExcludeNames, {}, {"acme"}}

FilterInit ==
    /\ \E items \in SeqsUpTo(FilterItems, MaxItems),
          exclude_names \in ExcludeSets,
          limit \in 0..MaxLimit :
         filt = [pc |-> "call", items |-> items, exclude_names |-> exclude_names,
                 limit |-> limit, out |-> <<>>]
    /\ EngineInit
    /\ RecsIdle
    /\ MatchIdle
    /\ LimiterIdle
    /\ MergeIdle
    /\ NetIdle
    /\ HelperIdle

filter_and_deduplicate_call ==
    /\ filt.pc = "call"
    /\ filt' = [filt EXCEPT
                  !.pc = "done",
                  !.out = _filter_and_deduplicate(filt.items, filt.exclude_names,
                                                  filt.limit)]
    /\ UNCHANGED <<evars, recs, mat, lim, mrg, net, helper>>

FilterNext == filter_and_deduplicate_call

SpecFilter == FilterInit /\ [][FilterNext]_vars

(***************************************************************************)
(* SpecBrand: one call of _get_brand_recommendations or                    *)
(* _get_place_recommendations; every search_entities call is one step.     *)
(***************************************************************************)
GoodResult(entity_id) == Item("Acme", entity_id, TRUE, FALSE, FALSE, 0)
BadResult == Item("Acme", "None", TRUE, FALSE, FALSE, 0)

\* What a search that does not raise can return
SearchResultLists ==
    {<<>>, <<BadResult>>, <<GoodResult("e1")>>, <<GoodResult("e2")>>}

EntityList == <<"a", "b", "c", "d", "e">>

\* for entity in entities[:3]
LoopOver(entities) == Take(entities, 3)

RecsInit ==
    /\ \E kind \in {"brand", "place"}, n \in 0..MaxEntities :
         recs = [pc |-> "loop", kind |-> kind, entities |-> Take(EntityList, n),
                 i |-> 1, j |-> 1, collected |-> <<>>, log |-> <<>>, out |-> <<>>]
    /\ EngineInit
    /\ FilterIdle
    /\ MatchIdle
    /\ LimiterIdle
    /\ MergeIdle
    /\ NetIdle
    /\ HelperIdle

\* search_entities returned: keep the valid results, then break or go on
search_returns ==
    /\ recs.pc = "loop"
    /\ recs.i <= Len(LoopOver(recs.entities))
    /\ \E search_results \in SearchResultLists :
         LET term == SearchTerms(recs.kind, recs.entities[recs.i])[recs.j]
             collected == recs.collected \o ValidResults(search_results)
             next_entity == FoundSome(collected) \/ recs.j = 4
         IN  recs' = [recs EXCEPT
                        !.collected = collected,
                        !.log = Append(@, [i |-> recs.i, term |-> term,
                                           outcome |->
                                              IF ValidResults(search_results) # <<>>
                                              THEN "valid" ELSE "novalid"]),
                        !.i = IF next_entity THEN @ + 1 ELSE @,
                        !.j = IF next_entity THEN 1 ELSE @ + 1]
    /\ UNCHANGED <<evars, filt, mat, lim, mrg, net, helper>>

\* search_entities raised and the loop over the variants went on
search_raises_trying_next_variant ==
    /\ recs.pc = "loop"
    /\ recs.i <= Len(LoopOver(recs.entities))
    /\ recs' = [recs EXCEPT
                  !.log = Append(@, [i |-> recs.i,
                                     term |-> SearchTerms(recs.kind,
                                                          recs.entities[recs.i])[recs.j],
                                     outcome |-> "raise"]),
                  !.i = IF recs.j = 4 THEN @ + 1 ELSE @,
                  !.j = IF recs.j = 4 THEN 1 ELSE @ + 1]
    /\ UNCHANGED <<evars, filt, mat, lim, mrg, net, helper>>

\* search_entities raised and nothing caught it: the method call is over
search_raises_aborting ==
    /\ recs.pc = "loop"
    /\ recs.i <= Len(LoopOver(recs.entities))
    /\ recs' = [recs EXCEPT
                  !.pc = "raised",
                  !.log = Append(@, [i |-> recs.i,
                                     term |-> SearchTerms(recs.kind,
                                                          recs.entities[recs.i])[recs.j],
                                     outcome |-> "raise"])]
    /\ UNCHANGED <<evars, filt, mat, lim, mrg, net, helper>>

\* search_entities raised: the except clause goes on with the next entity
search_raises ==
    /\ recs.pc = "loop"
    /\ recs.i <= Len(LoopOver(recs.entities))
    /\ recs' = [recs EXCEPT
                  !.log = Append(@, [i |-> recs.i,
                                     term |-> SearchTerms(recs.kind,
                                                          recs.entities[recs.i])[recs.j],
                                     outcome |-> "raise"]),
                  !.i = @ + 1,
                  !.j = 1]
    /\ UNCHANGED <<evars, filt, mat, lim, mrg, net, helper>>

\* return self._filter_and_deduplicate(brands, limit=5)
recommendations_return ==
    /\ recs.pc = "loop"
    /\ recs.i > Len(LoopOver(recs.entities))
    /\ recs' = [recs EXCEPT
                  !.pc = "done",
                  !.out = _filter_and_deduplicate(recs.collected, DefaultExcludeNames,
                                                  RecommendationLimit)]
    /\ UNCHANGED <<evars, filt, mat, lim, mrg, net, helper>>

RecsNext == search_returns \/ search_raises \/ recommendations_return

SpecBrand == RecsInit /\ [][RecsNext]_vars

(***************************************************************************)
(* SpecMatch: one call of get_matching_info.                               *)
(***************************************************************************)
MatchInit ==
    /\ \E n \in 0..MaxEntities :
         mat = [pc |-> "call", entities |-> Take(EntityList, n),
                o |-> <<>>, result |-> NoneValue]
    /\ EngineInit
    /\ FilterIdle
    /\ RecsIdle
    /\ LimiterIdle
    /\ MergeIdle
    /\ NetIdle
    /\ HelperIdle

get_matching_info_call ==
    /\ mat.pc = "call"
    /\ \E o \in [1..3 -> SearchOutcomes] :
         mat' = [mat EXCEPT !.pc = "done",
                            !.o = o,
                            !.result = get_matching_info(mat.entities, o)]
    /\ UNCHANGED <<evars, filt, recs, lim, mrg, net, helper>>

MatchNext == get_matching_info_call

SpecMatch == MatchInit /\ [][MatchNext]_vars

(***************************************************************************)
(* Claims about the client.                                                *)
(***************************************************************************)
\* The searches made for the i-th entity, in order
TriesFor(i) == SelectSeq(recs.log, LAMBDA t : t.i = i)

\* C7: for each of the first 3 entities independently, the variants are tried in
\* their listed order until one search returns a valid result for that entity,
\* and only then are the entity's remaining variants skipped; an entity whose
\* first variant returns no valid result has its later variants tried, whatever
\* earlier entities returned. (A search that raises ends the entity's variants.)
C7_VariantsPerEntity ==
    recs.pc = "done" =>
        \A i \in 1..Len(LoopOver(recs.entities)) :
            LET tries == TriesFor(i)
                terms == SearchTerms(recs.kind, recs.entities[i])
            IN  /\ Len(tries) \in 1..4
                /\ \A k \in 1..Len(tries) : tries[k].term = terms[k]
                /\ \A k \in 1..(Len(tries) - 1) : tries[k].outcome = "novalid"
                /\ Len(tries) < 4 => tries[Len(tries)].outcome \in {"valid", "raise"}

\* C8: _filter_and_deduplicate never returns two items with the same entity_id
\* and never more than limit items.
C8_UniqueIdsWithinLimit ==
    filt.pc = "done" =>
        /\ Len(filt.out) <= filt.limit
        /\ \A a, b \in 1..Len(filt.out) :
              a # b => filt.out[a].entity_id # filt.out[b].entity_id

C8_Witness ==
    /\ filt.pc = "done"
    /\ Len(filt.items) = 2
    /\ filt.items[1].entity_id = filt.items[2].entity_id
    /\ HasUsefulInfo(filt.items[1]) /\ HasUsefulInfo(filt.items[2])
    /\ ~IsGenericName(filt.items[1], filt.exclude_names)
    /\ ~IsGenericName(filt.items[2], filt.exclude_names)
    /\ filt.limit = 2
    /\ Len(filt.out) = 1

\* The walk of the sorted list in which an id counts as taken only once an item
\* carrying it was emitted
RECURSIVE ReferenceWalk(_, _, _, _, _, _)
ReferenceWalk(sorted_items, i, emitted_ids, filtered, exclude_names, limit) ==
    IF i > Len(sorted_items) \/ Len(filtered) >= limit THEN filtered
    ELSE LET item == sorted_items[i]
             emit == /\ item.entity_id \notin emitted_ids
                     /\ ~IsGenericName(item, exclude_names)
                     /\ HasUsefulInfo(item)
         IN  ReferenceWalk(sorted_items, i + 1,
                           IF emit THEN emitted_ids \cup {item.entity_id}
                           ELSE emitted_ids,
                           IF emit THEN Append(filtered, item) ELSE filtered,
                           exclude_names, limit)

\* C9: the output is the reference walk of the quality-sorted list: an item is
\* skipped for its id only when an item with that id was already emitted, so an
\* item rejected for its name or for lacking content does not keep a later valid
\* item with the same id from being emitted.
C9_MatchesReferenceWalk ==
    filt.pc = "done" =>
        filt.out = ReferenceWalk(SortedByQuality(filt.items), 1, {}, <<>>,
                                 filt.exclude_names, filt.limit)

\* The entities among the first 3 whose search returned a result
SharedCount ==
    Cardinality({i \in 1..Len(Take(mat.entities, 3)) : mat.o[i] = "hit"})

StepResult(affinity, cluster) ==
    /\ mat.result.affinity_percentage = affinity
    /\ mat.result.audience_cluster = cluster

\* C10 as claimed: 90 / Cultural Enthusiast for a shared count >= 3, 85 /
\* Cultural Explorer for exactly 2, 75 / Cultural Curious for 0 or 1, the empty
\* entity list included.
C10_StepFunctionAlways ==
    mat.pc = "done" =>
        /\ SharedCount >= 3 => StepResult(90, "Cultural Enthusiast")
        /\ SharedCount = 2 => StepResult(85, "Cultural Explorer")
        /\ SharedCount <= 1 => StepResult(75, "Cultural Curious")

\* C10 amended: for a non-empty entity list get_matching_info returns 90 /
\* Cultural Enthusiast for a shared count >= 3, 85 / Cultural Explorer for
\* exactly 2 and 75 / Cultural Curious for 0 or 1; for the empty list it returns
\* 0 / General with no shared interests; it returns no other pair.
C10_StepFunctionNonEmpty ==
    mat.pc = "done" =>
        IF mat.entities = <<>>
        THEN StepResult(0, "General") /\ mat.result.shared_interests = <<>>
        ELSE /\ SharedCount >= 3 => StepResult(90, "Cultural Enthusiast")
             /\ SharedCount = 2 => StepResult(85, "Cultural Explorer")
             /\ SharedCount <= 1 => StepResult(75, "Cultural Curious")

C10_Witness ==
    /\ mat.pc = "done"
    /\ Len(mat.entities) >= 3
    /\ SharedCount = 2
    /\ StepResult(85, "Cultural Explorer")

(***************************************************************************)
(* QlooClient._rate_limit, statement by statement.  Time is counted in     *)
(* ticks of 50 ms; time.time() is read from the clock lim.now, which only  *)
(* moves forward.  The method takes no lock, so callers on other threads   *)
(* may run between any two of its statements.                              *)
(***************************************************************************)
\* Ticks the clock may advance in a run
MaxClock == 5

\* _rate_limit calls made by each caller
MaxCalls == 2

\* self.min_request_interval = 0.1, in ticks of 50 ms
min_request_interval == 2

\* sleep_time = self.min_request_interval - time_since_last, without the wait
SleepTime_none(time_since_last) == 0

\* sleep_time = self.min_request_interval - time_since_last
SleepTime(time_since_last) == min_request_interval - time_since_last

\* A caller outside _rate_limit with its calls still to make
CallerOutside ==
    [pc |-> "out", current_time |-> 0, wake |-> 0, slept |-> FALSE,
     left |-> MaxCalls]

\* A client fresh from __init__ (last_request_time = 0), used by the given
\* callers; the epoch clock is well past the first interval
LimiterStart(callers) ==
    [pc |-> "run",
     now |-> min_request_interval,
     last_request_time |-> 0,
     callers |-> [c \in callers |-> CallerOutside],
     returns |-> <<>>]

LimiterRunning == lim.pc = "run"

\* time.time() moves on
clock_tick ==
    /\ LimiterRunning
    /\ lim.now < min_request_interval + MaxClock
    /\ lim' = [lim EXCEPT !.now = @ + 1]
    /\ UNCHANGED <<evars, filt, recs, mat, mrg, net, helper>>

\* entry and  current_time = time.time()
rate_limit_read_clock(c) ==
    /\ LimiterRunning
    /\ lim.callers[c].pc = "out"
    /\ lim.callers[c].left > 0
    /\ lim' = [lim EXCEPT !.callers[c] =
                  [pc |-> "compare", current_time |-> lim.now, wake |-> 0,
                   slept |-> FALSE, left |-> @.left - 1]]
    /\ UNCHANGED <<evars, filt, recs, mat, mrg, net, helper>>

\* time_since_last = current_time - self.last_request_time, the comparison
\* with min_request_interval, and the call of time.sleep(sleep_time)
rate_limit_compare(c) ==
    /\ LimiterRunning
    /\ lim.callers[c].pc = "compare"
    /\ LET time_since_last == lim.callers[c].current_time - lim.last_request_time
       IN  IF time_since_last < min_request_interval
           THEN lim' = [lim EXCEPT !.callers[c].pc = "sleeping",
                                   !.callers[c].slept = TRUE,
                                   !.callers[c].wake =
                                       lim.now + SleepTime(time_since_last)]
           ELSE lim' = [lim EXCEPT !.callers[c].pc = "record"]
    /\ UNCHANGED <<evars, filt, recs, mat, mrg, net, helper>>

\* time.sleep returns once at least sleep_time has passed
rate_limit_wake(c) ==
    /\ LimiterRunning
    /\ lim.callers[c].pc = "sleeping"
    /\ lim.now >= lim.callers[c].wake
    /\ lim' = [lim EXCEPT !.callers[c].pc = "record"]
    /\ UNCHANGED <<evars, filt, recs, mat, mrg, net, helper>>

\* self.last_request_time = time.time(), and the return
rate_limit_record(c) ==
    /\ LimiterRunning
    /\ lim.callers[c].pc = "record"
    /\ lim' = [lim EXCEPT !.last_request_time = lim.now,
                          !.callers[c] =
                              [CallerOutside EXCEPT !.left = lim.callers[c].left],
                          !.returns = Append(@, [caller |-> c, at |-> lim.now,
                                                 slept |-> lim.callers[c].slept])]
    /\ UNCHANGED <<evars, filt, recs, mat, mrg, net, helper>>

LimiterNext ==
    \/ clock_tick
    \/ \E c \in DOMAIN lim.callers : rate_limit_read_clock(c)
    \/ \E c \in DOMAIN lim.callers : rate_limit_compare(c)
    \/ \E c \in DOMAIN lim.callers : rate_limit_wake(c)
    \/ \E c \in DOMAIN lim.callers : rate_limit_record(c)

\* Two threads share one client
LimiterInit ==
    /\ EngineInit
    /\ FilterIdle
    /\ RecsIdle
    /\ MatchIdle
    /\ MergeIdle
    /\ NetIdle
    /\ HelperIdle
    /\ lim = LimiterStart({"a", "b"})

SpecLimiter == LimiterInit /\ [][LimiterNext]_vars

\* One thread makes its requests one after another
SequentialInit ==
    /\ EngineInit
    /\ FilterIdle
    /\ RecsIdle
    /\ MatchIdle
    /\ MergeIdle
    /\ NetIdle
    /\ HelperIdle
    /\ lim = LimiterStart({"a"})

SpecSequential == SequentialInit /\ [][LimiterNext]_vars

\* Every return is at least min_request_interval after the one before it
ReturnsSpaced ==
    \A i \in 1..Len(lim.returns) : \A j \in 1..Len(lim.returns) :
        i < j => lim.returns[j].at >= lim.returns[i].at + min_request_interval

\* C11: when several callers use one client at once, no two _rate_limit
\* calls return less than min_request_interval apart, as if the
\* read-compare-sleep-write sequence were atomic.
C11_ConcurrentReturnsSpaced == LimiterRunning => ReturnsSpaced

\* C12: on one client used sequentially, each _rate_limit call returns no
\* earlier than min_request_interval after the previous one, and
\* last_request_time never decreases: it is 0 before the first return and
\* the time of the latest return afterwards.
C12_SequentialReturnsSpaced ==
    LimiterRunning =>
        /\ ReturnsSpaced
        /\ lim.last_request_time =
               IF lim.returns = <<>> THEN 0
               ELSE lim.returns[Len(lim.returns)].at
        /\ \A i \in 1..Len(lim.returns) : lim.returns[i].at >= 0

\* The second call came too early, slept, and returned exactly one
\* interval after the first
C12_Witness ==
    /\ LimiterRunning
    /\ Len(lim.returns) >= 2
    /\ lim.returns[2].slept
    /\ lim.returns[2].at = lim.returns[1].at + min_request_interval

(***************************************************************************)
(* llm_parser_node on its own: the node is run on a state that already     *)
(* holds a profile, and then again on the state it returned, with the same *)
(* extractor output.  The extractor's output is json.loads of the model's  *)
(* reply: parse_entities checks only that "entities" is a list, so a name  *)
(* may be any JSON value.                                                  *)
(***************************************************************************)
\* Entities in one extractor output
MaxBatch == 2

\* Runs of the node on one extractor output
MaxRuns == 2

\* A name the profiles under test do not hold yet
NewNames == {"n2"}

\* A name that is a JSON number: hashable, so set() takes it, but not a str
NonStringNames == {"#7"}

MergeBatches ==
    SeqsUpTo([name : NewNames \cup NonStringNames, type : Range(Types)], MaxBatch)

\* Profiles the accumulation loop leaves: only filled categories have a key.
\* Empty, complete, or complete but for the first or the last parser key.
ParserProfiles ==
    {Flatten([i \in 1..Len(ParserKeys) |->
                IF i \in filled
                THEN <<[k |-> ParserKeys[i], v |-> <<"n1">>]>>
                ELSE <<>>]) :
        filled \in {{}, 1..Len(ParserKeys), 2..Len(ParserKeys),
                    1..(Len(ParserKeys) - 1)}}

\* ", ".join(all_entities[:3]) raises TypeError on an item that is not a str
JoinRaises(existing) ==
    LET shown == Take(FirstTwoOfEach(existing), 3)
    IN  \E i \in 1..Len(shown) : shown[i] \in NonStringNames

\* The state the parser returns when the join raised: the merged profile was
\* already stored, current_context and profile_complete were not reached
ParserFailedAfterMerge(st, existing) ==
    [ParserFailed(st) EXCEPT !.extracted_entities = existing]

ParserInit ==
    /\ \E d \in ParserProfiles :
         state = [GraphInput("u1") EXCEPT
                    !.extracted_entities = d,
                    !.current_context = Take(FirstTwoOfEach(d), 3),
                    !.profile_complete = AllRequiredFilled(d)]
    /\ pc = LLM_PARSER
    /\ trace = <<>>
    /\ calls = <<>>
    /\ turn = 1
    /\ outcome = "none"
    /\ prev_held = {}
    /\ FilterIdle
    /\ RecsIdle
    /\ MatchIdle
    /\ LimiterIdle
    /\ NetIdle
    /\ HelperIdle
    /\ \E entities \in MergeBatches :
         mrg = [pc |-> "run", entities |-> entities, runs |-> <<>>,
                start |-> state.extracted_entities, once |-> <<>>]

ParserRan(how) ==
    [mrg EXCEPT !.runs = Append(@, how),
                !.once = IF mrg.runs = <<>> THEN state'.extracted_entities ELSE @]

AllRunsOk == \A i \in 1..Len(mrg.runs) : mrg.runs[i] = "ok"

\* The node is run again as long as it has not raised
ParserCanRun ==
    /\ mrg.pc = "run"
    /\ pc = LLM_PARSER
    /\ Len(mrg.runs) < MaxRuns
    /\ AllRunsOk

\* The node runs to its return statement
parser_run_ok ==
    /\ ParserCanRun
    /\ ~names_of_type_raises(mrg.entities)
    /\ \E existing \in Accumulate(state.extracted_entities, mrg.entities, 1) :
         /\ ~JoinRaises(existing)
         /\ state' = ParserDone(ParserStarted(state), existing)
    /\ mrg' = ParserRan("ok")
    /\ UNCHANGED <<pc, trace, calls, turn, outcome, prev_held, filt, recs, mat, lim, net, helper>>

\* create_parser_chain, invoke or names_of_type raises: nothing was merged
parser_run_raise_before_merge ==
    /\ ParserCanRun
    /\ state' = ParserFailed(ParserStarted(state))
    /\ mrg' = ParserRan("raised before merge")
    /\ UNCHANGED <<pc, trace, calls, turn, outcome, prev_held, filt, recs, mat, lim, net, helper>>

\* The join of current_context raises after the loop stored the merge
parser_run_raise_after_merge ==
    /\ ParserCanRun
    /\ ~names_of_type_raises(mrg.entities)
    /\ \E existing \in Accumulate(state.extracted_entities, mrg.entities, 1) :
         /\ JoinRaises(existing)
         /\ state' = ParserFailedAfterMerge(ParserStarted(state), existing)
    /\ mrg' = ParserRan("raised after merge")
    /\ UNCHANGED <<pc, trace, calls, turn, outcome, prev_held, filt, recs, mat, lim, net, helper>>

ParserNext ==
    \/ parser_run_ok
    \/ parser_run_raise_before_merge
    \/ parser_run_raise_after_merge

SpecParser == ParserInit /\ [][ParserNext]_vars

\* The names each category holds, as sets
CategorySets(d) == [category \in Range(required) |-> Range(Get(d, category))]

\* C13: merging the same batch into the profile a second time leaves every
\* category with the same set of names as merging it once.
C13_MergeIdempotent ==
    (mrg.pc = "run" /\ Len(mrg.runs) >= 2 /\ AllRunsOk) =>
        CategorySets(state.extracted_entities) = CategorySets(mrg.once)

\* A batch that brought a second name to a category was merged twice
C13_Witness ==
    /\ mrg.pc = "run"
    /\ Len(mrg.runs) = 2
    /\ AllRunsOk
    /\ \E category \in Range(required) :
         /\ Range(Get(mrg.start, category)) = {"n1"}
         /\ Range(Get(mrg.once, category)) = {"n1", "n2"}
         /\ Range(Get(state.extracted_entities, category)) = {"n1", "n2"}

\* C14: when a parser step ends, profile_complete is true exactly when each
\* of the six categories holds at least one name.
C14_CompleteIffAllFilled ==
    (mrg.pc = "run" /\ mrg.runs # <<>>) =>
        (state.profile_complete <=> AllRequiredFilled(state.extracted_entities))

\* The values of a list are pairwise different
NoDuplicates(xs) == \A i \in 1..Len(xs) : \A j \in 1..Len(xs) : xs[i] = xs[j] => i = j

\* C15: in every state of a turn the profile has all six category keys, each
\* mapped to a collection that may be empty, and no category holds a name twice.
C15_SixKeysNoDuplicates ==
    turn > 0 =>
        /\ DictKeys(state.extracted_entities) = Range(required)
        /\ \A i \in 1..Len(state.extracted_entities) :
               NoDuplicates(state.extracted_entities[i].v)

\* C16: conversation_history is append-only across the turns of a session,
\* one entry per turn: when the n-th turn has ended it holds n entries.
C16_HistoryGrowsByOnePerTurn ==
    TurnEnded => Len(state.conversation_history) = turn

\* The previous turn ended with every category filled
PreviousTurnComplete ==
    \A i \in 1..Len(required) : \E n \in Names : <<required[i], n>> \in prev_held

\* C17: once a turn ended with profile_complete true, the next turn of the
\* session ends with profile_complete true as well and has run profile
\* generation and recommendation again.
C17_CompleteStaysComplete ==
    (TurnEnded /\ turn >= 2 /\ PreviousTurnComplete) =>
        /\ state.profile_complete
        /\ PROFILE_GENERATOR \in Range(trace)
        /\ DYNAMIC_RECOMMENDATIONS \in Range(trace)

\* A node that reaches its client call logs it in calls; a node that is in
\* the trace without its call took its except branch.
RecommendationNodeFailed ==
    /\ DYNAMIC_RECOMMENDATIONS \in Range(trace)
    /\ \A i \in 1..Len(calls) : calls[i].method = "get_matching_info"

MatchingNodeFailed ==
    /\ OPTIONAL_MATCH \in Range(trace)
    /\ \A i \in 1..Len(calls) : calls[i].method # "get_matching_info"

\* C18: if the recommendation node fails, recommendations are the two empty
\* lists and error_message is set from then on, the matching node is the next
\* to run, and the turn ends with both still so and with matching having run.
C18_RecommendationFailureDefaults ==
    RecommendationNodeFailed =>
        /\ state.recommendations = EmptyRecommendations
        /\ state.error_message # "None"
        /\ pc = OPTIONAL_MATCH \/ OPTIONAL_MATCH \in Range(trace)
        /\ TurnEnded => (OPTIONAL_MATCH \in Range(trace) /\ outcome = "returned")

\* A turn whose recommendation node failed and whose matching node then
\* computed a match
C18_Witness ==
    /\ TurnEnded
    /\ RecommendationNodeFailed
    /\ state.error_message = "Error in dynamic_recommendations"
    /\ state.matching.kind = "match"

\* C19: if the matching node fails, the turn's matching output is null and
\* error_message is set.
C19_MatchFailureGivesNull ==
    (TurnEnded /\ MatchingNodeFailed) =>
        /\ state.matching = NoneValue
        /\ state.error_message # "None"

\* A step taken by a node other than the parser keeps the three fields
LaterNodeKeepsProfile ==
    pc \in {CONVERSATIONAL_LLM, PROFILE_GENERATOR, DYNAMIC_RECOMMENDATIONS,
            OPTIONAL_MATCH} =>
        /\ state'.extracted_entities = state.extracted_entities
        /\ state'.conversation_history = state.conversation_history
        /\ state'.profile_complete = state.profile_complete

\* C20: the follow-up, profile-generation, recommendation and matching nodes
\* leave extracted_entities, conversation_history and profile_complete as
\* they found them, whether they succeed or fail.
C20_LaterNodesKeepProfile == [][LaterNodeKeepsProfile]_vars

\* A turn in which the parser merged entities and the matching node failed
\* afterwards: the merged entities are still there
C20_Witness ==
    /\ TurnEnded
    /\ MatchingNodeFailed
    /\ state.error_message = "Error in optional_match"
    /\ AllRequiredFilled(state.extracted_entities)
    /\ Len(state.conversation_history) = 1
    /\ state.profile_complete

(***************************************************************************)
(* Claims about failures inside a turn.                                    *)
(***************************************************************************)
\* The fixed entity list parse_user_responses returns when its chain raises
FallbackEntities ==
    <<[name |-> "indie", type |-> "artist"],
      [name |-> "minimalist", type |-> "art"],
      [name |-> "urban", type |-> "place"],
      [name |-> "casual", type |-> "brand"],
      [name |-> "creativity", type |-> "tag"],
      [name |-> "young professionals", type |-> "audience"]>>

\* The parser took its except branch in this turn; no later node of the
\* follow-up path writes error_message
ParserNodeFailed ==
    /\ LLM_PARSER \in Range(trace)
    /\ state.error_message = "Error in llm_parser_node"

\* C21: when the extractor call fails during a turn, the profile holds the
\* fixed default entities after the parser step, and the turn goes on to
\* routing.
C21_FallbackEntitiesMerged ==
    ParserNodeFailed =>
        \A i \in 1..Len(ParserKeys) :
            Range(NewValues(FallbackEntities, ParserKeys[i])) \subseteq
                Range(Get(state.extracted_entities, ParserKeys[i]))

(***************************************************************************)
(* SpecClient: one thread that constructs QlooClient objects, as           *)
(* dynamic_recommendations_node and optional_match_node each do, and calls *)
(* search_entities on them.  net.log holds what the latest search did,     *)
(* net.last_get the GET sent before it.                                    *)
(***************************************************************************)
\* QlooClient() constructions attempted in a run
MaxClients == 2

\* search_entities calls made in a run
MaxSearches == 3

\* The api_key argument and the X-Api-Key environment variable: absent,
\* empty, or a key
ApiKeyValues == {"None", "", "key"}

\* api_key or os.getenv("X-Api-Key")
ApiKeyOf(api_key, env) == IF api_key \in {"None", ""} THEN env ELSE api_key

\* A constructor that accepts a missing key
ConstructionRaises_never(api_key) == FALSE

\* if not self.api_key: raise ValueError
ConstructionRaises(api_key) == api_key \in {"None", ""}

\* What session.get can meet: a 2xx body with "results", with "entities",
\* with neither, a 2xx body that is not JSON, a non-2xx status, a transport
\* failure
Responses == {"results", "entities", "other", "bad_json", "http_error", "request_error"}

\* A request that swallows every failure
RequestRaises_never(response) == FALSE

\* raise_for_status / httpx.RequestError / response.json() raising; every one
\* of them is re-raised by _make_request and by search_entities
RequestRaises(response) == response \in {"bad_json", "http_error", "request_error"}

\* A log entry; a GET carries the clock reading at which it was sent
NetEvent(ev, client, detail) ==
    [ev |-> ev, client |-> client, detail |-> detail,
     at |-> IF ev = "GET" THEN net.now ELSE 0]

NoGet == [ev |-> "none", client |-> 0, detail |-> "", at |-> 0]

NoCall == [pc |-> "none", client |-> 0, wake |-> 0]

NetRunning == net.pc = "run"

\* The GET of the latest search, if it sent one
GetsIn(log) == SelectSeq(log, LAMBDA e : e.ev = "GET")

ClientInit ==
    /\ EngineInit
    /\ FilterIdle
    /\ RecsIdle
    /\ MatchIdle
    /\ LimiterIdle
    /\ MergeIdle
    /\ HelperIdle
    /\ net = [pc |-> "run", now |-> min_request_interval,
              clients |-> <<>>, constructions |-> 0, refused |-> 0,
              searches |-> 0, call |-> NoCall, log |-> <<>>, last_get |-> NoGet]

\* time.time() moves on
net_clock_tick ==
    /\ NetRunning
    /\ net.now < min_request_interval + MaxClock
    /\ net' = [net EXCEPT !.now = @ + 1]
    /\ UNCHANGED <<evars, filt, recs, mat, lim, mrg, helper>>

\* QlooClient(api_key): a client object exists only if __init__ returned
client_construct ==
    /\ NetRunning
    /\ net.call = NoCall
    /\ net.constructions < MaxClients
    /\ \E argument \in ApiKeyValues, env \in ApiKeyValues :
         LET api_key == ApiKeyOf(argument, env)
         IN  IF ConstructionRaises(api_key)
             THEN net' = [net EXCEPT
                            !.constructions = @ + 1,
                            !.refused = @ + 1]
             ELSE net' = [net EXCEPT
                            !.constructions = @ + 1,
                            !.clients = Append(@, [api_key |-> api_key,
                                                   last_request_time |-> 0])]
    /\ UNCHANGED <<evars, filt, recs, mat, lim, mrg, helper>>

\* The log of a new search starts empty; the GET of the search before it
\* is kept as last_get
StartSearch(c, call_pc, wake, log) ==
    [net EXCEPT
       !.searches = @ + 1,
       !.call = [pc |-> call_pc, client |-> c, wake |-> wake],
       !.last_get = IF GetsIn(net.log) # <<>> THEN GetsIn(net.log)[1] ELSE @,
       !.log = log]

\* search_entities -> _make_request -> _rate_limit up to the comparison:
\* either the timestamp is written at once or the caller sleeps
search_entities_begin ==
    /\ NetRunning
    /\ net.call = NoCall
    /\ net.searches < MaxSearches
    /\ \E c \in 1..Len(net.clients) :
         LET time_since_last == net.now - net.clients[c].last_request_time
         IN  IF time_since_last < min_request_interval
             THEN net' = StartSearch(c, "sleeping",
                                     net.now + SleepTime(time_since_last), <<>>)
             ELSE net' = [StartSearch(c, "get", 0,
                                      <<NetEvent("rate_limit", c, "")>>)
                            EXCEPT !.clients[c].last_request_time = net.now]
    /\ UNCHANGED <<evars, filt, recs, mat, lim, mrg, helper>>

\* time.sleep returned; self.last_request_time = time.time()
search_entities_wake ==
    /\ NetRunning
    /\ net.call.pc = "sleeping"
    /\ net.now >= net.call.wake
    /\ net' = [net EXCEPT
                 !.clients[net.call.client].last_request_time = net.now,
                 !.call.pc = "get",
                 !.call.wake = 0,
                 !.log = Append(@, NetEvent("rate_limit", net.call.client, "slept"))]
    /\ UNCHANGED <<evars, filt, recs, mat, lim, mrg, helper>>

\* self.session.get(...) and what search_entities does with the answer
search_entities_get ==
    /\ NetRunning
    /\ net.call.pc = "get"
    /\ \E response \in Responses :
         net' = [net EXCEPT
                   !.call = NoCall,
                   !.log = @ \o
                       <<NetEvent("GET", net.call.client,
                                  net.clients[net.call.client].api_key),
                         NetEvent(IF RequestRaises(response) THEN "raised"
                                  ELSE "returned",
                                  net.call.client, response)>>]
    /\ UNCHANGED <<evars, filt, recs, mat, lim, mrg, helper>>

ClientNext ==
    \/ net_clock_tick
    \/ client_construct
    \/ search_entities_begin
    \/ search_entities_wake
    \/ search_entities_get

SpecClient == ClientInit /\ [][ClientNext]_vars

IsPrefix(s, t) == Len(s) <= Len(t) /\ \A i \in 1..Len(s) : s[i] = t[i]

EventKinds(log) == [i \in 1..Len(log) |-> log[i].ev]

\* C22: each search_entities call makes one rate-limit wait and then exactly
\* one GET, and a non-2xx answer or a transport failure makes it raise with
\* no second request.
C22_OneWaitOneGetNoRetry ==
    NetRunning =>
        /\ \/ IsPrefix(EventKinds(net.log), <<"rate_limit", "GET", "returned">>)
           \/ IsPrefix(EventKinds(net.log), <<"rate_limit", "GET", "raised">>)
        /\ net.call = NoCall /\ net.searches > 0 => Len(net.log) = 3
        /\ Len(net.log) = 3 /\ net.log[3].detail \in {"http_error", "request_error"}
               => net.log[3].ev = "raised"

\* A search slept in the limiter, sent its one GET and got a non-2xx answer
C22_Witness ==
    /\ NetRunning
    /\ Len(net.log) = 3
    /\ net.log[1].detail = "slept"
    /\ net.log[3].detail = "http_error"
    /\ net.log[3].ev = "raised"

\* C23: constructing QlooClient with no API credential raises, so every
\* client that exists holds a credential, every GET is sent with one, and a
\* search raises only for what the request met, never for a missing key.
C23_NoClientWithoutCredential ==
    NetRunning =>
        /\ \A c \in 1..Len(net.clients) : net.clients[c].api_key \notin {"None", ""}
        /\ Len(net.clients) + net.refused = net.constructions
        /\ \A i \in 1..Len(net.log) :
               /\ net.log[i].ev = "GET" => net.log[i].detail \notin {"None", ""}
               /\ net.log[i].ev = "raised" => RequestRaises(net.log[i].detail)

\* One construction without a credential raised, another with one gave a
\* client, and that client sent a request
C23_Witness ==
    /\ NetRunning
    /\ net.refused >= 1
    /\ Len(net.clients) >= 1
    /\ \E i \in 1..Len(net.log) : net.log[i].ev = "GET"

\* C28: any two consecutive outbound search requests of the process are at
\* least min_request_interval apart, whichever client object sent them.
C28_ConsecutiveRequestsSpaced ==
    (NetRunning /\ GetsIn(net.log) # <<>> /\ net.last_get # NoGet) =>
        GetsIn(net.log)[1].at >= net.last_get.at + min_request_interval

\* The step just taken was a search that raised
SearchJustRaised ==
    /\ recs.pc = "loop"
    /\ recs'.pc # "idle"
    /\ Len(recs'.log) = Len(recs.log) + 1
    /\ recs'.log[Len(recs'.log)].outcome = "raise"

\* A raising search adds nothing to the collected results and hands over to
\* the next entity
RaiseContributesNothing ==
    SearchJustRaised =>
        /\ recs'.collected = recs.collected
        /\ recs'.pc = "loop"
        /\ recs'.i = recs.i + 1

\* C24: a search that raises adds no raw result for its entity, and
\* _get_brand_recommendations / _get_place_recommendations still return a
\* list: the loop goes on to the next entity and the call ends in a return.
C24_RaisingSearchesReturnList ==
    /\ [][RaiseContributesNothing]_vars
    /\ [](recs.pc \in {"idle", "loop", "done"})
    /\ [](recs.pc = "loop" => ENABLED RecsNext)

\* Every search of a call raised, for three entities, and the call returned
\* the empty list
C24_Witness ==
    /\ recs.pc = "done"
    /\ Len(recs.log) = 3
    /\ \A k \in 1..Len(recs.log) : recs.log[k].outcome = "raise" /\ recs.log[k].i = k
    /\ recs.collected = <<>>
    /\ recs.out = <<>>

\* C25: an error raised by search_entities comes out of get_matching_info
\* (and of the recommend methods) as a raise, to be caught by the node.
C25_SearchErrorPropagates ==
    (mat.pc = "done" /\ \E i \in 1..Len(LoopOver(mat.entities)) : mat.o[i] = "raise") =>
        mat.result.kind = "raised"

\* C26: every result process_input returns has recommendations with a brands
\* list and a places list, and matching that is a match result or null.
C26_CompleteResponseShape ==
    (TurnEnded /\ outcome = "returned") =>
        /\ state.recommendations.kind = "recs"
        /\ state.matching.kind \in {"match", "None"}

\* C27: every turn that ends with profile_complete true carries the
\* completion message as assistant_message.
C27_CompleteTurnHasCompletionMessage ==
    (TurnEnded /\ outcome = "returned" /\ state.profile_complete) =>
        state.assistant_message = CompletionMessage

\* Positions in the input that the emitted items can have come from: one per
\* emitted item, holding that item.
EmittedFrom ==
    {p \in [1..Len(filt.out) -> 1..Len(filt.items)] :
        \A k \in 1..Len(filt.out) : filt.items[p[k]] = filt.out[k]}

\* C29: _filter_and_deduplicate emits items in non-increasing quality-score
\* order, and items of equal score in their original input order.
C29_DescendingAndStable ==
    filt.pc = "done" =>
        \E p \in EmittedFrom :
            \A a, b \in 1..Len(filt.out) :
                a < b =>
                    \/ quality_score(filt.out[a]) > quality_score(filt.out[b])
                    \/ /\ quality_score(filt.out[a]) = quality_score(filt.out[b])
                       /\ p[a] < p[b]

\* Two different items of equal score, both emitted, in input order
C29_Witness ==
    /\ filt.pc = "done"
    /\ Len(filt.items) = 2
    /\ filt.items[1] # filt.items[2]
    /\ quality_score(filt.items[1]) = quality_score(filt.items[2])
    /\ filt.out = filt.items

\* name non-empty, no excluded term in its lowercase form, and some content
Qualifies(item, exclude_names) ==
    /\ item.name # ""
    /\ \A exclude \in exclude_names : ~Substring(exclude, Lower(item.name))
    /\ (item.description \/ item.image \/ item.properties_description)

\* C30: every item _filter_and_deduplicate returns has a non-empty name whose
\* lowercase form holds no excluded term and has a description, an image or a
\* properties description; when no input item qualifies the call returns the
\* empty list.
C30_EmittedItemsQualify ==
    filt.pc = "done" =>
        /\ \A k \in 1..Len(filt.out) : Qualifies(filt.out[k], filt.exclude_names)
        /\ (\A i \in 1..Len(filt.items) : ~Qualifies(filt.items[i], filt.exclude_names))
               => filt.out = <<>>

\* Under the default terms: one item emitted, and one with content and an id
\* of its own left out for its name
C30_Witness ==
    /\ filt.pc = "done"
    /\ filt.exclude_names = DefaultExcludeNames
    /\ Len(filt.items) = 2
    /\ filt.limit = 2
    /\ Len(filt.out) = 1
    /\ \E i \in 1..2 :
         /\ filt.items[i].name = "Brand X"
         /\ HasUsefulInfo(filt.items[i])
         /\ filt.items[i].entity_id # filt.out[1].entity_id
         /\ filt.items[i].entity_id # "None"

\* The positions among the first 3 entities whose search returned a result
HitPositions == {i \in 1..Len(LoopOver(mat.entities)) : mat.o[i] = "hit"}

\* shared_interests holds exactly the entities at the hit positions, in order
SharedIsHitSubsequence ==
    LET shared == mat.result.shared_interests
    IN  \E p \in [1..Len(shared) -> HitPositions] :
            /\ \A a, b \in 1..Len(shared) : a < b => p[a] < p[b]
            /\ \A i \in HitPositions : \E k \in 1..Len(shared) : p[k] = i
            /\ \A k \in 1..Len(shared) : shared[k] = mat.entities[p[k]]

\* C31: get_matching_info searches once for each of the first 3 entities at
\* most; shared_interests is the subsequence, in order, of those entities whose
\* search returned a result, so it has at most 3 members; a search that raises
\* is not counted and the searches after it still count; affinity_percentage is
\* within 0..100.
C31_SharedInterestsOfFirstThree ==
    mat.pc = "done" =>
        /\ mat.result.kind = "match"
        /\ Len(LoopOver(mat.entities)) <= 3
        /\ SharedIsHitSubsequence
        /\ Len(mat.result.shared_interests) <= 3
        /\ mat.result.affinity_percentage \in 0..100

\* The first search raises, the second and third return results
C31_Witness ==
    /\ mat.pc = "done"
    /\ Len(mat.entities) = 4
    /\ mat.o = <<"raise", "hit", "hit">>
    /\ mat.result.shared_interests = <<mat.entities[2], mat.entities[3]>>
    /\ mat.result.affinity_percentage = 85

(***************************************************************************)
(* SpecNarrative: build_combined_profile_narrative on a profile, then      *)
(* get_comprehensive_recommendations on the narrative.                     *)
(***************************************************************************)
\* Names a category holds in the profiles of this specification
MaxNames == 2

NameList == <<"n1", "n2", "n3">>

\* Per category: key absent (-1), key present with an empty list (0), or
\* 1..MaxNames names; the keys in the order of required or in the parser's order.
NarrativeProfiles ==
    {Flatten([i \in 1..Len(keys) |->
                IF shape[keys[i]] = -1 THEN <<>>
                ELSE <<[k |-> keys[i], v |-> Take(NameList, shape[keys[i]])]>>]) :
        keys \in {required, ParserKeys},
        shape \in [Range(required) -> -1..MaxNames]}

\* The searches a call of get_comprehensive_recommendations can issue: none for
\* an empty narrative, else 1 to 4 variants in each of the two methods
ComprehensiveSearches(profile_narrative) ==
    IF profile_narrative = <<>> THEN {0} ELSE 2..8

NarrativeInit ==
    /\ \E entities \in NarrativeProfiles :
         helper = [pc |-> "call", entities |-> entities, narrative |-> <<>>,
                   searches |-> 0, result |-> NoneValue]
    /\ EngineInit
    /\ FilterIdle
    /\ RecsIdle
    /\ MatchIdle
    /\ LimiterIdle
    /\ MergeIdle
    /\ NetIdle

build_combined_profile_narrative_call ==
    /\ helper.pc = "call"
    /\ helper' = [helper EXCEPT
                    !.pc = "narrated",
                    !.narrative = build_combined_profile_narrative(helper.entities)]
    /\ UNCHANGED <<evars, filt, recs, mat, lim, mrg, net>>

get_comprehensive_recommendations_call ==
    /\ helper.pc = "narrated"
    /\ \E result \in get_comprehensive_recommendations(helper.narrative),
          searches \in ComprehensiveSearches(helper.narrative) :
         helper' = [helper EXCEPT !.pc = "done", !.result = result,
                                  !.searches = searches]
    /\ UNCHANGED <<evars, filt, recs, mat, lim, mrg, net>>

NarrativeNext ==
    build_combined_profile_narrative_call \/ get_comprehensive_recommendations_call

SpecNarrative == NarrativeInit /\ [][NarrativeNext]_vars

\* The categories and their labels in the order the narrative is to have
NarrativeOrder ==
    <<[field |-> "music", label |-> "Music"], [field |-> "art", label |-> "Art"],
      [field |-> "fashion", label |-> "Fashion"],
      [field |-> "values", label |-> "Values"],
      [field |-> "places", label |-> "Places"],
      [field |-> "audiences", label |-> "Audiences"]>>

NonEmptyCategories(d) ==
    {i \in 1..Len(NarrativeOrder) : Get(d, NarrativeOrder[i].field) # <<>>}

\* C32: the narrative has one segment, label and names, for each non-empty
\* category, in the order Music, Art, Fashion, Values, Places, Audiences, and
\* none for an empty or absent category; for the empty narrative
\* get_comprehensive_recommendations returns empty lists and searches nothing.
C32_NarrativeSegmentsInFixedOrder ==
    /\ helper.pc \in {"narrated", "done"} =>
          \E p \in [1..Len(helper.narrative) -> NonEmptyCategories(helper.entities)] :
              /\ \A a, b \in 1..Len(helper.narrative) : a < b => p[a] < p[b]
              /\ \A i \in NonEmptyCategories(helper.entities) :
                    \E k \in 1..Len(helper.narrative) : p[k] = i
              /\ \A k \in 1..Len(helper.narrative) :
                    /\ helper.narrative[k].label = NarrativeOrder[p[k]].label
                    /\ helper.narrative[k].values =
                          Get(helper.entities, NarrativeOrder[p[k]].field)
    /\ (helper.pc = "done" /\ NonEmptyCategories(helper.entities) = {}) =>
          /\ helper.narrative = <<>>
          /\ helper.result = EmptyRecommendations
          /\ helper.searches = 0

\* A profile stored in the parser's key order, places before fashion, with an
\* empty art list and no music key
C32_Witness ==
    /\ helper.pc = "done"
    /\ "music" \notin DictKeys(helper.entities)
    /\ "art" \in DictKeys(helper.entities)
    /\ \E i, j \in 1..Len(helper.entities) :
          /\ i < j
          /\ helper.entities[i].k = "places"
          /\ helper.entities[j].k = "fashion"
    /\ Len(helper.narrative) = 2
    /\ helper.narrative[1] = [label |-> "Fashion", values |-> <<"n1", "n2">>]
    /\ helper.narrative[2].label = "Places"
    /\ helper.searches > 0

(***************************************************************************)
(* SpecMissing: get_missing_fields on a profile, next to the parser's      *)
(* completeness test on the same profile.                                  *)
(***************************************************************************)
MissingInit ==
    /\ \E entities \in NarrativeProfiles :
         helper = [pc |-> "call", entities |-> entities, missing |-> <<>>,
                   profile_complete |-> FALSE]
    /\ EngineInit
    /\ FilterIdle
    /\ RecsIdle
    /\ MatchIdle
    /\ LimiterIdle
    /\ MergeIdle
    /\ NetIdle

get_missing_fields_call ==
    /\ helper.pc = "call"
    /\ helper' = [helper EXCEPT
                    !.pc = "done",
                    !.missing = get_missing_fields(helper.entities),
                    !.profile_complete = AllRequiredFilled(helper.entities)]
    /\ UNCHANGED <<evars, filt, recs, mat, lim, mrg, net>>

MissingNext == get_missing_fields_call

SpecMissing == MissingInit /\ [][MissingNext]_vars

\* The fixed order of the categories
CategoryOrder == <<"music", "art", "fashion", "values", "places", "audiences">>

EmptyOrAbsent(d) ==
    {i \in 1..Len(CategoryOrder) :
        \/ CategoryOrder[i] \notin DictKeys(d)
        \/ \E e \in 1..Len(d) : d[e].k = CategoryOrder[i] /\ d[e].v = <<>>}

OnlyMusicAndFashionFilled(d) ==
    EmptyOrAbsent(d) = {2, 4, 5, 6}

\* C33: get_missing_fields returns exactly the categories that are empty or
\* absent, in the order music, art, fashion, values, places, audiences; with
\* only music and fashion filled that is art, values, places, audiences; the
\* list is empty exactly when the parser's completeness test holds.
C33_MissingFieldsExact ==
    helper.pc = "done" =>
        /\ \E p \in [1..Len(helper.missing) -> EmptyOrAbsent(helper.entities)] :
              /\ \A a, b \in 1..Len(helper.missing) : a < b => p[a] < p[b]
              /\ \A i \in EmptyOrAbsent(helper.entities) :
                    \E k \in 1..Len(helper.missing) : p[k] = i
              /\ \A k \in 1..Len(helper.missing) :
                    helper.missing[k] = CategoryOrder[p[k]]
        /\ OnlyMusicAndFashionFilled(helper.entities) =>
              helper.missing = <<"art", "values", "places", "audiences">>
        /\ (helper.missing = <<>>) <=> helper.profile_complete

\* The scenario profile: music and fashion hold a name, the other four keys
\* hold empty lists
C33_Witness ==
    /\ helper.pc = "done"
    /\ DictKeys(helper.entities) = Range(CategoryOrder)
    /\ OnlyMusicAndFashionFilled(helper.entities)
    /\ helper.missing = <<"art", "values", "places", "audiences">>
    /\ ~helper.profile_complete

PromptTypes == {"artist", "brand", "place", "destination", "movie", "tag", "audience"}

\* The vocabularies a run can have: every type, the prompt's types, only
\* types the parser does not map, and those with "art"
Vocabularies == {Range(Types), PromptTypes, {"movie"}, {"art", "movie"}}

TypedInit ==
    /\ EngineInit
    /\ FilterIdle
    /\ RecsIdle
    /\ MatchIdle
    /\ LimiterIdle
    /\ MergeIdle
    /\ NetIdle
    /\ \E types \in Vocabularies : helper = [pc |-> "extractor", types |-> types]

SpecTyped == TypedInit /\ [][Next]_vars

\* The types the parser maps to a category
MappedTypes == {"artist", "art", "place", "destination", "brand", "tag", "audience"}

LaterPath == {PROFILE_GENERATOR, DYNAMIC_RECOMMENDATIONS, OPTIONAL_MATCH}

\* C35: entities of a type other than artist, art, place, destination, brand,
\* tag, audience never change the profile, and the art category is filled only
\* by an entity of type art; so with an extractor that emits only the types of
\* its prompt profile_complete is never true and profile generation,
\* recommendation and matching never run.
C35_OnlyArtFillsArt ==
    helper.pc = "extractor" =>
        /\ helper.types \cap MappedTypes = {} => state.extracted_entities = EmptyDict
        /\ "art" \notin helper.types => Get(state.extracted_entities, "art") = <<>>
        /\ helper.types \subseteq PromptTypes =>
              /\ ~state.profile_complete
              /\ pc \notin LaterPath
              /\ Range(trace) \cap LaterPath = {}

\* A turn of a prompt-vocabulary run that filled every category but art and
\* ended on the follow-up path
C35_Witness ==
    /\ helper.pc = "extractor"
    /\ helper.types = PromptTypes
    /\ TurnEnded
    /\ outcome = "returned"
    /\ \A i \in 1..Len(required) :
          (Get(state.extracted_entities, required[i]) = <<>>) <=> (required[i] = "art")
    /\ trace = <<LLM_PARSER, CONVERSATIONAL_LLM>>

\* A raising search keeps what was collected and moves to the first variant of
\* the next entity
RaiseSkipsToNextEntity ==
    SearchJustRaised =>
        /\ recs'.collected = recs.collected
        /\ recs'.i = recs.i + 1
        /\ recs'.j = 1

\* No search follows a raising one for the same entity, and everything
\* collected is in the returned list
RaiseEndsEntityOnly ==
    /\ \A k \in 1..Len(recs.log) :
          recs.log[k].outcome = "raise" =>
              \A m \in (k + 1)..Len(recs.log) : recs.log[m].i > recs.log[k].i
    /\ recs.pc = "done" => Range(recs.collected) \subseteq Range(recs.out)

NamelessEntities ==
    {[name |-> NoName, type |-> "artist"], [name |-> NoName, type |-> "movie"],
     [name |-> "n2", type |-> "artist"], [name |-> "n2", type |-> "audience"],
     [name |-> "#7", type |-> "art"]}

NamelessBatches == SeqsUpTo(NamelessEntities, MaxBatch)

NamelessInit ==
    /\ \E d \in ParserProfiles :
         state = [GraphInput("u1") EXCEPT
                    !.extracted_entities = d,
                    !.current_context = Take(FirstTwoOfEach(d), 3),
                    !.profile_complete = AllRequiredFilled(d)]
    /\ pc = LLM_PARSER
    /\ trace = <<>>
    /\ calls = <<>>
    /\ turn = 1
    /\ outcome = "none"
    /\ prev_held = {}
    /\ FilterIdle
    /\ RecsIdle
    /\ MatchIdle
    /\ LimiterIdle
    /\ NetIdle
    /\ HelperIdle
    /\ \E entities \in NamelessBatches :
         mrg = [pc |-> "run", entities |-> entities, runs |-> <<>>,
                start |-> state.extracted_entities, once |-> <<>>]

SpecNameless == NamelessInit /\ [][ParserNext]_vars

SomeEntityLacksName ==
    \E i \in 1..Len(mrg.entities) : mrg.entities[i].name = NoName

\* C37: when extraction raises or an extracted entity has no name, the parser
\* step changes no category set and leaves profile_complete as it was at the
\* start, with the input appended to conversation_history and error_message
\* set.
C37_MergeAllOrNothing ==
    (/\ mrg.pc = "run"
     /\ Len(mrg.runs) = 1
     /\ (mrg.runs[1] = "raised before merge" \/ SomeEntityLacksName)) =>
        /\ CategorySets(state.extracted_entities) = CategorySets(mrg.start)
        /\ state.profile_complete = AllRequiredFilled(mrg.start)
        /\ Len(state.conversation_history) = 1
        /\ state.error_message # "None"

\* The input positions of the items without entity_id
WithoutId == {i \in 1..Len(filt.items) : filt.items[i].entity_id = "None"}

\* The item without entity_id that the sort puts first: none of the others has
\* a higher score, or the same score and an earlier input position
FirstWithoutId(i) ==
    /\ i \in WithoutId
    /\ \A j \in WithoutId \ {i} :
          \/ quality_score(filt.items[j]) < quality_score(filt.items[i])
          \/ /\ quality_score(filt.items[j]) = quality_score(filt.items[i])
             /\ i < j

EmittedWithoutId == {k \in 1..Len(filt.out) : filt.out[k].entity_id = "None"}

\* C38: _filter_and_deduplicate emits at most one item without entity_id, and
\* none when the first such item in sorted order fails the name or the content
\* test.
C38_OneKeyForMissingIds ==
    filt.pc = "done" =>
        /\ Cardinality(EmittedWithoutId) <= 1
        /\ \A i \in WithoutId :
              (FirstWithoutId(i) /\ ~Qualifies(filt.items[i], filt.exclude_names))
                  => EmittedWithoutId = {}

\* Two items without entity_id: the better scored one has a generic name, the
\* other would pass both tests, and nothing is emitted
C38_Witness ==
    /\ filt.pc = "done"
    /\ filt.limit = 2
    /\ Len(filt.items) = 2
    /\ WithoutId = {1, 2}
    /\ \E i \in 1..2 :
          /\ FirstWithoutId(i)
          /\ HasUsefulInfo(filt.items[i])
          /\ IsGenericName(filt.items[i], filt.exclude_names)
          /\ Qualifies(filt.items[3 - i], filt.exclude_names)
    /\ filt.out = <<>>

(***************************************************************************)
(* SpecOrder: two runs whose profiles hold the same names per category,    *)
(* each list in an order list(set(...)) can leave; the entities each run   *)
(* selects for current_context, for the contextual queries and for         *)
(* matching.                                                               *)
(***************************************************************************)
\* The names a category can hold
OrderSets == {{}, {"n1"}, {"n1", "n2"}}

\* Per parser key the set of names it holds: any of OrderSets for the first
\* three keys, and the last three keys all empty or all holding "n1"
OrderContents ==
    {cs \in [1..Len(ParserKeys) -> OrderSets] :
        \/ \A i \in 4..Len(ParserKeys) : cs[i] = {}
        \/ \A i \in 4..Len(ParserKeys) : cs[i] = {"n1"}}

\* The dicts the accumulation loop can leave for these contents: a key for each
\* filled category, in the parser's key order, its list in any order
ProfilesOf(cs) ==
    {Flatten([i \in 1..Len(ParserKeys) |->
                IF cs[i] = {} THEN <<>> ELSE <<[k |-> ParserKeys[i], v |-> l[i]]>>]) :
        l \in {f \in [1..Len(ParserKeys) -> UNION {Perms(S) : S \in OrderSets}] :
                 \A i \in 1..Len(ParserKeys) : Range(f[i]) = cs[i]}}

\* What a run selects from its profile
SelectionsOf(d) ==
    [current_context |-> ParserDone(GraphInput("u1"), d).current_context,
     queries |-> LoopOver(FirstTwoOfEach(d)),
     matching |-> get_matching_info(FirstTwoOfEach(d),
                                    [i \in 1..3 |-> "hit"]).shared_interests]

OrderInit ==
    /\ \E cs \in OrderContents :
         \E a, b \in ProfilesOf(cs) :
            helper = [pc |-> "call", a |-> a, b |-> b,
                      chosen_a |-> NoneValue, chosen_b |-> NoneValue]
    /\ EngineInit
    /\ FilterIdle
    /\ RecsIdle
    /\ MatchIdle
    /\ LimiterIdle
    /\ MergeIdle
    /\ NetIdle

select_entities_call ==
    /\ helper.pc = "call"
    /\ helper' = [helper EXCEPT !.pc = "done",
                                !.chosen_a = SelectionsOf(helper.a),
                                !.chosen_b = SelectionsOf(helper.b)]
    /\ UNCHANGED <<evars, filt, recs, mat, lim, mrg, net>>

OrderNext == select_entities_call

SpecOrder == OrderInit /\ [][OrderNext]_vars

\* C39: two runs whose profiles hold the same set of names in every category
\* select the same entities for current_context, for the contextual
\* recommendation queries and for matching.
C39_SelectionIgnoresOrder ==
    (helper.pc = "done"
        /\ CategorySets(helper.a) = CategorySets(helper.b)) =>
        /\ Range(helper.chosen_a.current_context) = Range(helper.chosen_b.current_context)
        /\ Range(helper.chosen_a.queries) = Range(helper.chosen_b.queries)
        /\ Range(helper.chosen_a.matching) = Range(helper.chosen_b.matching)

(***************************************************************************)
(* SpecBasic: one call of get_basic_recommendations; every search_entities *)
(* call is one step.                                                       *)
(***************************************************************************)
\* basic_terms[:2] and then the three place terms
BasicTerms == <<"fashion", "music", "travel", "culture", "city">>

\* The searches whose results go to brands
BasicBrandTerms == 2

\* limit=3 of the two _filter_and_deduplicate calls
BasicLimit == 3

BasicInit ==
    /\ helper = [pc |-> "loop", k |-> 1, log |-> <<>>, brands |-> <<>>,
                 places |-> <<>>, out |-> NoneValue]
    /\ EngineInit
    /\ FilterIdle
    /\ RecsIdle
    /\ MatchIdle
    /\ LimiterIdle
    /\ MergeIdle
    /\ NetIdle

\* search_entities returned: brands.extend(results) or places.extend(results)
basic_search_returns ==
    /\ helper.pc = "loop"
    /\ helper.k <= Len(BasicTerms)
    /\ \E results \in SearchResultLists :
         helper' = [helper EXCEPT
                      !.k = @ + 1,
                      !.log = Append(@, [term |-> BasicTerms[helper.k],
                                         outcome |-> "returned"]),
                      !.brands = IF helper.k <= BasicBrandTerms THEN @ \o results ELSE @,
                      !.places = IF helper.k <= BasicBrandTerms THEN @ ELSE @ \o results]
    /\ UNCHANGED <<evars, filt, recs, mat, lim, mrg, net>>

\* An except clause that returns what was fetched before the failure
basic_search_raises_keeping_results ==
    /\ helper.pc = "loop"
    /\ helper.k <= Len(BasicTerms)
    /\ helper' = [helper EXCEPT
                    !.pc = "done",
                    !.log = Append(@, [term |-> BasicTerms[helper.k],
                                       outcome |-> "raise"]),
                    !.out = [kind |-> "recs",
                             brands |-> _filter_and_deduplicate(
                                            helper.brands, DefaultExcludeNames, BasicLimit),
                             places |-> _filter_and_deduplicate(
                                            helper.places, DefaultExcludeNames, BasicLimit)]]
    /\ UNCHANGED <<evars, filt, recs, mat, lim, mrg, net>>

\* search_entities raised: the except clause returns empty lists
basic_search_raises ==
    /\ helper.pc = "loop"
    /\ helper.k <= Len(BasicTerms)
    /\ helper' = [helper EXCEPT
                    !.pc = "done",
                    !.log = Append(@, [term |-> BasicTerms[helper.k],
                                       outcome |-> "raise"]),
                    !.out = EmptyRecommendations]
    /\ UNCHANGED <<evars, filt, recs, mat, lim, mrg, net>>

\* Both loops are over: filter the two lists and return them
basic_recommendations_return ==
    /\ helper.pc = "loop"
    /\ helper.k > Len(BasicTerms)
    /\ helper' = [helper EXCEPT
                    !.pc = "done",
                    !.out = [kind |-> "recs",
                             brands |-> _filter_and_deduplicate(
                                            helper.brands, DefaultExcludeNames, BasicLimit),
                             places |-> _filter_and_deduplicate(
                                            helper.places, DefaultExcludeNames, BasicLimit)]]
    /\ UNCHANGED <<evars, filt, recs, mat, lim, mrg, net>>

BasicNext == basic_search_returns \/ basic_search_raises \/ basic_recommendations_return

SpecBasic == BasicInit /\ [][BasicNext]_vars

\* The order the searches are to have
BasicSearchOrder == <<"fashion", "music", "travel", "culture", "city">>

BasicSearchRaised ==
    \E k \in 1..Len(helper.log) : helper.log[k].outcome = "raise"

\* C40: get_basic_recommendations searches for fashion, music, travel,
\* culture, city in this order; a search that raises is the last one, and the
\* call then returns empty brands and places whatever was fetched before; the
\* call always ends by returning.
C40_BasicAllOrNothing ==
    /\ helper.pc \in {"loop", "done"}
    /\ Len(helper.log) <= 5
    /\ \A k \in 1..Len(helper.log) : helper.log[k].term = BasicSearchOrder[k]
    /\ \A k \in 1..Len(helper.log) :
          helper.log[k].outcome = "raise" =>
              /\ k = Len(helper.log)
              /\ helper.pc = "done"
              /\ helper.out.kind = "recs"
              /\ helper.out.brands = <<>>
              /\ helper.out.places = <<>>
    /\ helper.pc = "done" =>
          /\ helper.out.kind = "recs"
          /\ ~BasicSearchRaised => Len(helper.log) = 5
    /\ helper.pc = "loop" => ENABLED BasicNext

\* Brands were fetched by the first two searches, the third raised
C40_Witness ==
    /\ helper.pc = "done"
    /\ Len(helper.log) = 3
    /\ helper.log[3].outcome = "raise"
    /\ _filter_and_deduplicate(helper.brands, DefaultExcludeNames, BasicLimit) # <<>>
    /\ helper.out = EmptyRecommendations

====
